---- MODULE Spec2Model ----
(***************************************************************************)
(* flatfile-js: schema-driven translation between delimited text and typed *)
(* records.  Text is modelled as a sequence of one-character strings; the  *)
(* control characters are written CR, LF, SP and TAB.                      *)
(***************************************************************************)
EXTENDS Integers, Sequences, FiniteSets, TLC

CR == "\\r"
LF == "\\n"
SP == " "
TAB == "\\t"
ZWNBSP == "uFEFF"

(* ---------------- bounds of the model ---------------- *)
MaxDocLen == 5
MaxStrLen == 3

(* ---------------- JavaScript string primitives ---------------- *)

\* the white space String.prototype.trim removes (its members that the
\* model's texts can contain)
IsWhiteSpace(c) == c \in {SP, TAB, CR, LF, ZWNBSP}

RECURSIVE TrimStart(_)
TrimStart(s) ==
  IF s = <<>> THEN <<>>
  ELSE IF IsWhiteSpace(Head(s)) THEN TrimStart(Tail(s)) ELSE s

RECURSIVE TrimEnd(_)
TrimEnd(s) ==
  IF s = <<>> THEN <<>>
  ELSE IF IsWhiteSpace(s[Len(s)]) THEN TrimEnd(SubSeq(s, 1, Len(s) - 1)) ELSE s

\* String.prototype.trim
Trim(s) == TrimEnd(TrimStart(s))

\* sub occurs in s at the 1-based index p
OccursAt(s, sub, p) ==
  /\ p >= 1
  /\ p + Len(sub) - 1 <= Len(s)
  /\ SubSeq(s, p, p + Len(sub) - 1) = sub

\* String.prototype.indexOf, 1-based, 0 when absent (JavaScript: 0-based, -1)
RECURSIVE IndexOfFrom(_, _, _)
IndexOfFrom(s, sub, p) ==
  IF p + Len(sub) - 1 > Len(s) THEN 0
  ELSE IF OccursAt(s, sub, p) THEN p
  ELSE IndexOfFrom(s, sub, p + 1)

IndexOf(s, sub) == IndexOfFrom(s, sub, 1)

\* String.prototype.split with a non-empty string separator
RECURSIVE SplitOn(_, _)
SplitOn(s, sep) ==
  LET q == IndexOf(s, sep)
  IN IF q = 0 THEN <<s>>
     ELSE <<SubSeq(s, 1, q - 1)>> \o SplitOn(SubSeq(s, q + Len(sep), Len(s)), sep)

\* String.prototype.split(/\r?\n/): every LF ends a piece, and a CR right
\* before that LF belongs to the terminator
RECURSIVE SplitNewline(_)
SplitNewline(s) ==
  LET q == IndexOf(s, <<LF>>)
  IN IF q = 0 THEN <<s>>
     ELSE LET e == IF q > 1 /\ s[q - 1] = CR THEN q - 2 ELSE q - 1
          IN <<SubSeq(s, 1, e)>> \o SplitNewline(SubSeq(s, q + 1, Len(s)))

\* Array.prototype.join
RECURSIVE Join(_, _)
Join(parts, sep) ==
  IF parts = <<>> THEN <<>>
  ELSE IF Len(parts) = 1 THEN parts[1]
  ELSE parts[1] \o sep \o Join(Tail(parts), sep)


\* String.prototype.toLowerCase on the letters of the model's texts
UpperCase == <<"A", "E", "F", "L", "N", "O", "R", "S", "T", "U", "Y">>
LowerCase == <<"a", "e", "f", "l", "n", "o", "r", "s", "t", "u", "y">>

LowerChar(c) ==
  IF \E j \in 1..Len(UpperCase) : UpperCase[j] = c
  THEN LowerCase[CHOOSE j \in 1..Len(UpperCase) : UpperCase[j] = c]
  ELSE c

ToLowerCase(s) == [j \in 1..Len(s) |-> LowerChar(s[j])]

(* ---------------- JavaScript numbers ---------------- *)
(* A finite number is the decimal n * 10^(-k), normalised so that k = 0 or *)
(* n is not a multiple of 10.  The texts of the model use digits, "-" and  *)
(* "."; exponents, hexadecimal literals, Infinity and the sign of zero are *)
(* outside the model.                                                      *)

Digits == <<"0", "1", "2", "3", "4", "5", "6", "7", "8", "9">>

IsDigit(c) == \E j \in 1..10 : Digits[j] = c

DigitVal(c) == (CHOOSE j \in 1..10 : Digits[j] = c) - 1

AllDigits(s) == \A j \in 1..Len(s) : IsDigit(s[j])

RECURSIVE Pow10(_)
Pow10(k) == IF k = 0 THEN 1 ELSE 10 * Pow10(k - 1)

NaN == [t |-> "NaN"]

RECURSIVE Normalise(_, _)
Normalise(n, k) ==
  IF k > 0 /\ n % 10 = 0 THEN Normalise(n \div 10, k - 1)
  ELSE [t |-> "number", n |-> n, k |-> k]

\* value of a digit string, as parseInt(s, 10) computes it
RECURSIVE DigitsVal(_)
DigitsVal(s) ==
  IF s = <<>> THEN 0
  ELSE 10 * DigitsVal(SubSeq(s, 1, Len(s) - 1)) + DigitVal(s[Len(s)])

\* length of the longest prefix of s made of digits
RECURSIVE DigitRun(_)
DigitRun(s) ==
  IF s = <<>> \/ ~IsDigit(Head(s)) THEN 0 ELSE 1 + DigitRun(Tail(s))

\* the longest prefix of s that is a StrDecimalLiteral without exponent:
\* [-] digits [. digits] or [-] . digits ; its length, 0 when there is none
DecimalPrefixLen(s) ==
  LET sg == IF s # <<>> /\ Head(s) = "-" THEN 1 ELSE 0
      r1 == SubSeq(s, sg + 1, Len(s))
      ip == DigitRun(r1)
      r2 == SubSeq(r1, ip + 1, Len(r1))
      dot == r2 # <<>> /\ Head(r2) = "."
      fp == IF dot THEN DigitRun(Tail(r2)) ELSE 0
  IN IF ip = 0 /\ fp = 0 THEN 0
     ELSE IF dot THEN sg + ip + 1 + fp
     ELSE sg + ip

\* the number a StrDecimalLiteral denotes
DecimalValue(s) ==
  LET neg == s # <<>> /\ Head(s) = "-"
      r1 == IF neg THEN Tail(s) ELSE s
      ip == DigitRun(r1)
      r2 == SubSeq(r1, ip + 1, Len(r1))
      fr == IF r2 # <<>> /\ Head(r2) = "." THEN Tail(r2) ELSE <<>>
      mag == DigitsVal(SubSeq(r1, 1, ip)) * Pow10(Len(fr)) + DigitsVal(fr)
  IN Normalise(IF neg THEN 0 - mag ELSE mag, Len(fr))

\* parseFloat(s): the value of the longest numeric prefix, NaN without one
ParseFloat(s) ==
  LET t == TrimStart(s)
      p == DecimalPrefixLen(t)
  IN IF p = 0 THEN NaN ELSE DecimalValue(SubSeq(t, 1, p))

\* Number(s): the whole trimmed text must be a numeric literal; '' is 0
ToNumber(s) ==
  LET t == Trim(s)
  IN IF t = <<>> THEN Normalise(0, 0)
     ELSE IF DecimalPrefixLen(t) = Len(t) THEN DecimalValue(t)
     ELSE NaN

\* decimal digits of a natural number, Number.prototype.toString
RECURSIVE NatToText(_)
NatToText(n) ==
  IF n < 10 THEN <<Digits[n + 1]>>
  ELSE NatToText(n \div 10) \o <<Digits[(n % 10) + 1]>>

IntToText(n) == IF n < 0 THEN <<"-">> \o NatToText(0 - n) ELSE NatToText(n)

\* String.prototype.padStart(w, '0')
RECURSIVE PadStart(_, _)
PadStart(s, w) == IF Len(s) >= w THEN s ELSE PadStart(<<"0">> \o s, w)

\* Math.round: the nearest integer, a half rounding towards +Infinity
MathRound(x) == (x.n * 2 + Pow10(x.k)) \div (2 * Pow10(x.k))

\* Number.prototype.toFixed(places): the integer m nearest to |x| * 10^places
\* (the larger one on a tie), printed with exactly `places` fraction digits.
\* A tie is taken as the decimal tie: exact for every x that is a binary
\* fraction (such as a.5), and the inputs of the model produce no other tie.
ToFixed(x, places) ==
  LET neg == x.n < 0
      mag == IF neg THEN 0 - x.n ELSE x.n
      m == IF x.k <= places THEN mag * Pow10(places - x.k)
           ELSE (mag * 2 + Pow10(x.k - places)) \div (2 * Pow10(x.k - places))
      ds == PadStart(NatToText(m), places + 1)
      ip == SubSeq(ds, 1, Len(ds) - places)
      fp == SubSeq(ds, Len(ds) - places + 1, Len(ds))
      body == IF places = 0 THEN ip ELSE ip \o <<".">> \o fp
  IN IF neg THEN <<"-">> \o body ELSE body

(* ---------------- JavaScript dates ---------------- *)
(* A Date at UTC midnight is the number of days since 1970-01-01.          *)

\* days since the epoch of the proleptic Gregorian date y-m-d, m in 1..12
DaysFromCivil(y, m, d) ==
  LET yy == IF m <= 2 THEN y - 1 ELSE y
      era == yy \div 400
      yoe == yy - era * 400
      mp == IF m > 2 THEN m - 3 ELSE m + 9
      doy == (153 * mp + 2) \div 5 + d - 1
      doe == yoe * 365 + yoe \div 4 - yoe \div 100 + doy
  IN era * 146097 + doe - 719468

\* the calendar date of a day number: getUTCFullYear, getUTCMonth() + 1,
\* getUTCDate
CivilFromDays(z) ==
  LET zz == z + 719468
      era == zz \div 146097
      doe == zz - era * 146097
      yoe == (doe - doe \div 1460 + doe \div 36524 - doe \div 146096) \div 365
      doy == doe - (365 * yoe + yoe \div 4 - yoe \div 100)
      mp == (5 * doy + 2) \div 153
      d == doy - (153 * mp + 2) \div 5 + 1
      m == IF mp < 10 THEN mp + 3 ELSE mp - 9
  IN [year |-> (yoe + era * 400) + (IF m <= 2 THEN 1 ELSE 0), month |-> m, day |-> d]

\* new Date(Date.UTC(year, monthIndex, day)): a year of 0..99 means 1900 +
\* year, and a month or day out of range carries over
DateUTC(year, monthIndex, day) ==
  LET yr == IF year >= 0 /\ year <= 99 THEN 1900 + year ELSE year
      ym == yr + monthIndex \div 12
      mn == monthIndex % 12
  IN [t |-> "date", days |-> DaysFromCivil(ym, mn + 1, 1) + day - 1]

(* ---------------- schema ---------------- *)
(* SchemaField: name, type, position, required, decimalPlaces, format,     *)
(* trueValue, falseValue; an option left out is Undefined (UndefinedNum    *)
(* for decimalPlaces).                                                     *)

Undefined == <<"undefined">>
UndefinedNum == -1

FmtYYYYMMDD == <<"Y", "Y", "Y", "Y", "M", "M", "D", "D">>
FmtDDMMYYYY == <<"D", "D", "/", "M", "M", "/", "Y", "Y", "Y", "Y">>
FmtMMDDYYYY == <<"M", "M", "/", "D", "D", "/", "Y", "Y", "Y", "Y">>
TokYYYY == <<"Y", "Y", "Y", "Y">>
TokMM == <<"M", "M">>
TokDD == <<"D", "D">>

Field(name, type, position, required) ==
  [name |-> name, type |-> type, position |-> position, required |-> required,
   decimalPlaces |-> UndefinedNum, format |-> Undefined,
   trueValue |-> Undefined, falseValue |-> Undefined]

(* ---------------- coercion.ts ---------------- *)

DEFAULT_TRUE_VALUES ==
  {<<"t", "r", "u", "e">>, <<"1">>, <<"y">>, <<"y", "e", "s">>}

DEFAULT_FALSE_VALUES ==
  {<<"f", "a", "l", "s", "e">>, <<"0">>, <<"n">>, <<"n", "o">>}

\* format.replace(/YYYY|MM|DD/g, ''): the format without its tokens
RECURSIVE StripTokens(_)
StripTokens(f) ==
  IF f = <<>> THEN <<>>
  ELSE IF OccursAt(f, TokYYYY, 1) THEN StripTokens(SubSeq(f, 5, Len(f)))
  ELSE IF OccursAt(f, TokMM, 1) \/ OccursAt(f, TokDD, 1)
       THEN StripTokens(SubSeq(f, 3, Len(f)))
  ELSE <<Head(f)>> \o StripTokens(Tail(f))

\* the three captures of ^(\d{a})sep(\d{2})sep(\d{lo,hi})$ on value, or <<>>
\* when value has not that shape
MatchGroups(value, a, sep, lo, hi) ==
  LET n == Len(sep)
      c == Len(value) - (a + 2 * n + 2)
  IN IF /\ c >= lo /\ c <= hi
        /\ AllDigits(SubSeq(value, 1, a))
        /\ SubSeq(value, a + 1, a + n) = sep
        /\ AllDigits(SubSeq(value, a + n + 1, a + n + 2))
        /\ SubSeq(value, a + n + 3, a + 2 * n + 2) = sep
        /\ AllDigits(SubSeq(value, a + 2 * n + 3, Len(value)))
     THEN <<SubSeq(value, 1, a), SubSeq(value, a + n + 1, a + n + 2),
            SubSeq(value, a + 2 * n + 3, Len(value))>>
     ELSE <<>>

\* the first of three attempts that matched
FirstMatch(m4, m3, m2) ==
  IF m4 # <<>> THEN m4 ELSE IF m3 # <<>> THEN m3 ELSE m2

\* new RegExp(pattern).exec(value) of parseDate: the quantifier {2,4} is
\* greedy, so the first group takes the most digits that still let the
\* whole value match.  sep is a separator the escape \sep matches literally.
RegexExec(value, format, sep) ==
  IF format = FmtYYYYMMDD THEN MatchGroups(value, 4, <<>>, 2, 2)
  ELSE FirstMatch(MatchGroups(value, 4, sep, 2, 4),
                  MatchGroups(value, 3, sep, 2, 4),
                  MatchGroups(value, 2, sep, 2, 4))

\* separators[0] ? `\\${separators[0]}` : ''
Separator(separators) ==
  IF separators # <<>> THEN <<separators[1]>> ELSE <<>>

\* the place of a token among the three after the sort by offset
Rank(pos, yPos, mPos, dPos) ==
  1 + Cardinality({q \in {yPos, mPos, dPos} : q < pos})

\* lines 104-107 of parseDate
DateOfParts(year, month, day) ==
  IF year = 0 \/ month = 0 \/ day = 0 THEN [t |-> "null"]
  ELSE DateUTC(year, month - 1, day)

\* lines 89-102 of parseDate: the captures go to year, month and day in
\* the order of the tokens in the format
DateOfMatch(match, yPos, mPos, dPos) ==
  IF match = <<>> THEN [t |-> "null"]
  ELSE DateOfParts(DigitsVal(match[Rank(yPos, yPos, mPos, dPos)]),
                   DigitsVal(match[Rank(mPos, yPos, mPos, dPos)]),
                   DigitsVal(match[Rank(dPos, yPos, mPos, dPos)]))

\* parseDate for a format that has the three tokens YYYY, MM and DD; the
\* result is a Date or null.  (The formats 'ISO' and 'YYYY-MM-DD' and the
\* formats without the three tokens go to the engine's own Date parser,
\* which the model does not cover: its schemas use token formats.)
ParseDate(value, format) ==
  DateOfMatch(RegexExec(value, format, Separator(StripTokens(format))),
              IndexOf(format, TokYYYY), IndexOf(format, TokMM),
              IndexOf(format, TokDD))

Returns(v) == [ok |-> TRUE, value |-> v]
Throws(type, trimmed) == [ok |-> FALSE, message |-> <<"Cannot convert", trimmed, type>>]

\* case 'number'
CoerceNumber(n, trimmed) ==
  IF n = NaN \/ trimmed = <<>> THEN Throws("number", trimmed) ELSE Returns(n)

\* case 'decimal'
CoerceDecimal(d, trimmed, places) ==
  IF d = NaN \/ trimmed = <<>> THEN Throws("decimal", trimmed)
  ELSE Returns(ParseFloat(ToFixed(d, places)))

\* case 'date'
CoerceDate(date, trimmed) ==
  IF date = [t |-> "null"] THEN Throws("date", trimmed) ELSE Returns(date)

\* case 'boolean', the tokens compared as they are written
CoerceBoolean_CaseSensitive(lower, trimmed, field) ==
  IF trimmed \in (IF field.trueValue # Undefined /\ field.trueValue # <<>>
                  THEN {field.trueValue}
                  ELSE DEFAULT_TRUE_VALUES)
  THEN Returns([t |-> "boolean", b |-> TRUE])
  ELSE IF trimmed \in (IF field.falseValue # Undefined /\ field.falseValue # <<>>
                       THEN {field.falseValue}
                       ELSE DEFAULT_FALSE_VALUES)
  THEN Returns([t |-> "boolean", b |-> FALSE])
  ELSE Throws("boolean", trimmed)

\* case 'boolean'
CoerceBoolean(lower, trimmed, field) ==
  IF lower \in (IF field.trueValue # Undefined /\ field.trueValue # <<>>
                THEN {ToLowerCase(field.trueValue)}
                ELSE DEFAULT_TRUE_VALUES)
  THEN Returns([t |-> "boolean", b |-> TRUE])
  ELSE IF lower \in (IF field.falseValue # Undefined /\ field.falseValue # <<>>
                     THEN {ToLowerCase(field.falseValue)}
                     ELSE DEFAULT_FALSE_VALUES)
  THEN Returns([t |-> "boolean", b |-> FALSE])
  ELSE Throws("boolean", trimmed)

\* the switch of coerceValue on field.type
CoerceTrimmed(trimmed, field) ==
  CASE field.type = "string" -> Returns([t |-> "string", s |-> trimmed])
    [] field.type = "number" -> CoerceNumber(ToNumber(trimmed), trimmed)
    [] field.type = "decimal" ->
         CoerceDecimal(ParseFloat(trimmed), trimmed,
                       IF field.decimalPlaces = UndefinedNum THEN 2
                       ELSE field.decimalPlaces)
    [] field.type = "date" -> CoerceDate(ParseDate(trimmed, field.format), trimmed)
    [] field.type = "boolean" -> CoerceBoolean(ToLowerCase(trimmed), trimmed, field)

\* coerceValue(raw, field): the typed value, or the TypeError it throws
CoerceValue(raw, field) == CoerceTrimmed(Trim(raw), field)

(* ---------------- validation.ts ---------------- *)

Null == [t |-> "null"]

\* validateField(raw, field, lineNumber): <<the ParseError>>, or <<>> for null
ValidateField(raw, field, lineNumber) ==
  LET trimmed == Trim(raw)
  IN IF field.required /\ trimmed = <<>>
     THEN <<[line |-> lineNumber, field |-> field.name, position |-> field.position,
             message |-> <<"required but empty">>, raw |-> raw]>>
     ELSE <<>>

(* ---------------- parser.ts ---------------- *)

\* splitLines splitting on /\r?\n/ whatever the lineEnding
SplitLines_AnyPolicy(text, lineEnding) == SplitNewline(text)

\* splitLines(content, lineEnding)
SplitLines(text, lineEnding) ==
  IF lineEnding = "CRLF" THEN SplitOn(text, <<CR, LF>>)
  ELSE IF lineEnding = "LF" THEN SplitOn(text, <<LF>>)
  ELSE SplitNewline(text)

\* parts[field.position] ?? ''
RawAt(parts, field) ==
  IF field.position + 1 <= Len(parts) THEN parts[field.position + 1] ELSE <<>>

ErrorOf(c, raw, field, lineNumber) ==
  [line |-> lineNumber, field |-> field.name, position |-> field.position,
   message |-> c.message, raw |-> raw]

\* FieldOutcome without the try/catch: the TypeError of coerceValue leaves
\* the loop
FieldOutcome_NoCatch(validationError, c, raw, field, lineNumber) ==
  IF validationError # <<>>
  THEN [value |-> Null, errors |-> validationError, threw |-> FALSE]
  ELSE IF Trim(raw) = <<>>
  THEN [value |-> Null, errors |-> <<>>, threw |-> FALSE]
  ELSE IF c.ok
  THEN [value |-> c.value, errors |-> <<>>, threw |-> FALSE]
  ELSE [value |-> Null, errors |-> <<>>, threw |-> TRUE]

\* FieldOutcome without the early null of an empty optional column: the
\* empty text goes to coerceValue
FieldOutcome_CoerceEmpty(validationError, c, raw, field, lineNumber) ==
  IF validationError # <<>>
  THEN [value |-> Null, errors |-> validationError, threw |-> FALSE]
  ELSE IF c.ok
  THEN [value |-> c.value, errors |-> <<>>, threw |-> FALSE]
  ELSE [value |-> Null, errors |-> <<ErrorOf(c, raw, field, lineNumber)>>,
        threw |-> FALSE]

\* lines 50-74 of parseFlat, for one field: given the result of
\* validateField and (when it is reached) of coerceValue, the value stored
\* in the record, the errors pushed, and whether an exception leaves the loop
FieldOutcome(validationError, c, raw, field, lineNumber) ==
  IF validationError # <<>>
  THEN [value |-> Null, errors |-> validationError, threw |-> FALSE]
  ELSE IF Trim(raw) = <<>>
  THEN [value |-> Null, errors |-> <<>>, threw |-> FALSE]
  ELSE IF c.ok
  THEN [value |-> c.value, errors |-> <<>>, threw |-> FALSE]
  ELSE [value |-> Null, errors |-> <<ErrorOf(c, raw, field, lineNumber)>>,
        threw |-> FALSE]

\* the body of parseFlat's loop over the fields, for one field
ParseField(raw, field, lineNumber) ==
  FieldOutcome(ValidateField(raw, field, lineNumber), CoerceValue(raw, field),
               raw, field, lineNumber)

EmptyRecord == [n \in {} |-> Null]

\* Accumulate leaving a field without value out of the record
Accumulate_OmitNull(acc, field, r) ==
  [record |-> IF r.value = Null THEN acc.record ELSE (field.name :> r.value) @@ acc.record,
   errors |-> acc.errors \o r.errors,
   threw |-> r.threw]

\* the record and the errors after one more field
Accumulate(acc, field, r) ==
  [record |-> (field.name :> r.value) @@ acc.record,
   errors |-> acc.errors \o r.errors,
   threw |-> r.threw]

\* ParseFields leaving the loop at the first field that fails
RECURSIVE ParseFields_BreakOnError(_, _, _, _, _)
ParseFields_BreakOnError(parts, fields, lineNumber, j, acc) ==
  IF j > Len(fields) \/ acc.threw \/ acc.errors # <<>> THEN acc
  ELSE ParseFields_BreakOnError(parts, fields, lineNumber, j + 1,
         Accumulate(acc, fields[j],
                    ParseField(RawAt(parts, fields[j]), fields[j], lineNumber)))

\* parseFlat's loop over schema.fields for the columns of one line, from
\* field number j on: the record, the errors pushed, and whether an
\* exception ended the loop early
RECURSIVE ParseFields(_, _, _, _, _)
ParseFields(parts, fields, lineNumber, j, acc) ==
  IF j > Len(fields) \/ acc.threw THEN acc
  ELSE ParseFields(parts, fields, lineNumber, j + 1,
         Accumulate(acc, fields[j],
                    ParseField(RawAt(parts, fields[j]), fields[j], lineNumber)))

\* one non-blank line of parseFlat: split on the delimiter, then the fields
ParseLine(line, sch, lineNumber) ==
  ParseFields(SplitOn(line, sch.delimiter), sch.fields, lineNumber, 1,
              [record |-> EmptyRecord, errors |-> <<>>, threw |-> FALSE])

(* ---------------- stringifier.ts ---------------- *)

\* String.prototype.replace(pattern, by) with a string pattern: the first
\* occurrence only
ReplaceFirstAt(s, q, n, by) ==
  IF q = 0 THEN s
  ELSE SubSeq(s, 1, q - 1) \o by \o SubSeq(s, q + n, Len(s))

ReplaceFirst(s, pattern, by) == ReplaceFirstAt(s, IndexOf(s, pattern), Len(pattern), by)

\* FormatCivil without the padStart of month and day
FormatCivil_NoPad(c, format) ==
  ReplaceFirst(
    ReplaceFirst(
      ReplaceFirst(format, TokYYYY, PadStart(IntToText(c.year), 4)),
      TokMM, IntToText(c.month)),
    TokDD, IntToText(c.day))

\* lines 64-71 of formatDate, for a format other than 'ISO'
FormatCivil(c, format) ==
  ReplaceFirst(
    ReplaceFirst(
      ReplaceFirst(format, TokYYYY, PadStart(IntToText(c.year), 4)),
      TokMM, PadStart(IntToText(c.month), 2)),
    TokDD, PadStart(IntToText(c.day), 2))

\* formatDate(date, format) for a format other than 'ISO'
FormatDate(date, format) == FormatCivil(CivilFromDays(date.days), format)

\* the value undefined, which is also what record[name] is for a key the
\* record lacks
UndefinedValue == [t |-> "undefined"]

\* SerializeValue with line 31 testing for null only: undefined goes on
\* to String(value)
SerializeValue_NullOnly(value, field) ==
  IF value = [t |-> "null"] THEN <<>>
  ELSE IF value = UndefinedValue THEN <<"undefined">>
  ELSE CASE field.type = "string" -> value.s
         [] field.type = "number" -> IntToText(MathRound(value))
         [] field.type = "decimal" ->
              ToFixed(value, IF field.decimalPlaces = UndefinedNum THEN 2
                             ELSE field.decimalPlaces)
         [] field.type = "date" -> FormatDate(value, field.format)
         [] field.type = "boolean" ->
              IF value.b
              THEN (IF field.trueValue = Undefined THEN <<"1">> ELSE field.trueValue)
              ELSE (IF field.falseValue = Undefined THEN <<"0">> ELSE field.falseValue)

\* serializeValue(value, field)
SerializeValue(value, field) ==
  IF value = [t |-> "null"] \/ value = UndefinedValue THEN <<>>
  ELSE CASE field.type = "string" -> value.s
         [] field.type = "number" -> IntToText(MathRound(value))
         [] field.type = "decimal" ->
              ToFixed(value, IF field.decimalPlaces = UndefinedNum THEN 2
                             ELSE field.decimalPlaces)
         [] field.type = "date" -> FormatDate(value, field.format)
         [] field.type = "boolean" ->
              IF value.b
              THEN (IF field.trueValue = Undefined THEN <<"1">> ELSE field.trueValue)
              ELSE (IF field.falseValue = Undefined THEN <<"0">> ELSE field.falseValue)

\* record[field.name]: undefined for a key the record lacks
ValueOf(record, field) ==
  IF field.name \in DOMAIN record THEN record[field.name] ELSE UndefinedValue

\* schema.fields.map(field => serializeValue(record[field.name], field))
SerializedParts(record, fields) ==
  [j \in 1..Len(fields) |-> SerializeValue(ValueOf(record, fields[j]), fields[j])]

\* the text of a field name in the header: one character that is neither
\* white space nor part of a delimiter
NameText(name) == <<name>>

\* StringifyLines with the header after the records
StringifyLines_HeaderLast(recs, sch) ==
  [k \in 1..Len(recs) |-> Join(SerializedParts(recs[k], sch.fields), sch.delimiter)]
  \o (IF sch.hasHeader
      THEN <<Join([j \in 1..Len(sch.fields) |-> NameText(sch.fields[j].name)],
                  sch.delimiter)>>
      ELSE <<>>)

\* the lines stringifyFlat joins: the header, then one line per record
StringifyLines(recs, sch) ==
  (IF sch.hasHeader
   THEN <<Join([j \in 1..Len(sch.fields) |-> NameText(sch.fields[j].name)], sch.delimiter)>>
   ELSE <<>>)
  \o [k \in 1..Len(recs) |-> Join(SerializedParts(recs[k], sch.fields), sch.delimiter)]

\* StringifyFlat with a line terminator after every line, the last included
StringifyFlat_Terminated(recs, sch) ==
  Join(StringifyLines(recs, sch) \o <<<<>>>>,
       IF sch.lineEnding = "CRLF" THEN <<CR, LF>> ELSE <<LF>>)

\* stringifyFlat(records, schema)
StringifyFlat(recs, sch) ==
  Join(StringifyLines(recs, sch), IF sch.lineEnding = "CRLF" THEN <<CR, LF>> ELSE <<LF>>)

(* ---------------- stream.ts ---------------- *)
(* A byte is written as the ASCII character it encodes; LeadByte and       *)
(* ContByte are the two bytes 0xC3 0xA9 of the character EAcute.           *)

LeadByte == "xC3"
ContByte == "xA9"
BomBytes == "xEFBBBF"
EAcute == "e-acute"
Replacement == "uFFFD"

\* TextDecoder.decode(value, { stream: true }), byte by byte: the decoder
\* keeps an incomplete sequence (the lead byte) for the next chunk, a
\* malformed sequence decodes to U+FFFD, and a byte order mark that is the
\* first thing in the stream (start) is dropped.  LeadByte ContByte is the
\* one two-byte character of the model; BomBytes stands for the three bytes
\* of U+FEFF, delivered together.
RECURSIVE Decode(_, _, _, _)
Decode(pend, bytes, out, start) ==
  IF bytes = <<>> THEN [text |-> out, pending |-> pend]
  ELSE IF pend # <<>>
  THEN (IF Head(bytes) = ContByte
        THEN Decode(<<>>, Tail(bytes), Append(out, EAcute), FALSE)
        ELSE Decode(<<>>, bytes, Append(out, Replacement), FALSE))
  ELSE IF Head(bytes) = LeadByte THEN Decode(<<LeadByte>>, Tail(bytes), out, FALSE)
  ELSE IF Head(bytes) = ContByte
  THEN Decode(<<>>, Tail(bytes), Append(out, Replacement), FALSE)
  ELSE IF Head(bytes) = BomBytes
  THEN Decode(<<>>, Tail(bytes), IF start THEN out ELSE Append(out, ZWNBSP), FALSE)
  ELSE Decode(<<>>, Tail(bytes), Append(out, Head(bytes)), FALSE)

\* TextEncoder.encode(text): the UTF-8 of a text
RECURSIVE Encode(_)
Encode(text) ==
  IF text = <<>> THEN <<>>
  ELSE (IF Head(text) = EAcute THEN <<LeadByte, ContByte>>
        ELSE IF Head(text) = ZWNBSP THEN <<BomBytes>>
        ELSE IF Head(text) = Replacement THEN <<"xEFBFBD">>
        ELSE <<Head(text)>>) \o Encode(Tail(text))

\* TakeLines keeping nothing in the buffer: the last piece counts as a line
TakeLines_NoBuffer(text) ==
  [parts |-> SplitNewline(text), buffer |-> <<>>]

\* lines 122-123 of parseStream: parts = buffer.split(/\r?\n/) and
\* buffer = parts.pop()
TakeLines(text) ==
  [parts |-> SubSeq(SplitNewline(text), 1, Len(SplitNewline(text)) - 1),
   buffer |-> SplitNewline(text)[Len(SplitNewline(text))]]

\* StreamOutcome without the try/catch around coerceValue
StreamOutcome_NoCatch(validationError, c, raw) ==
  IF validationError # <<>> THEN [value |-> Null, threw |-> FALSE]
  ELSE IF Trim(raw) = <<>> THEN [value |-> Null, threw |-> FALSE]
  ELSE IF c.ok THEN [value |-> c.value, threw |-> FALSE]
  ELSE [value |-> Null, threw |-> TRUE]

\* lines 153-168 of processLine, for one field: the value stored in the
\* record and whether an exception leaves processLine
StreamOutcome(validationError, c, raw) ==
  IF validationError # <<>> THEN [value |-> Null, threw |-> FALSE]
  ELSE IF Trim(raw) = <<>> THEN [value |-> Null, threw |-> FALSE]
  ELSE IF c.ok THEN [value |-> c.value, threw |-> FALSE]
  ELSE [value |-> Null, threw |-> FALSE]

StreamField(raw, field, lineNumber) ==
  StreamOutcome(ValidateField(raw, field, lineNumber), CoerceValue(raw, field), raw)

StreamAccumulate(acc, field, r) ==
  [record |-> (field.name :> r.value) @@ acc.record, threw |-> r.threw]

\* the loop of processLine over schema.fields, from field number j on
RECURSIVE ProcessFields(_, _, _, _, _)
ProcessFields(parts, fields, lineNumber, j, acc) ==
  IF j > Len(fields) \/ acc.threw THEN acc
  ELSE ProcessFields(parts, fields, lineNumber, j + 1,
         StreamAccumulate(acc, fields[j],
                          StreamField(RawAt(parts, fields[j]), fields[j], lineNumber)))

\* processLine(line, schema, lineNumber): the record it yields, or threw
ProcessLine(line, sch, lineNumber) ==
  ProcessFields(SplitOn(line, sch.delimiter), sch.fields, lineNumber, 1,
                [record |-> EmptyRecord, threw |-> FALSE])

\* DrainLines yielding a record for a blank line too
RECURSIVE DrainLines_NoBlankSkip(_, _, _, _)
DrainLines_NoBlankSkip(ps, ln, hs, sch) ==
  IF ps = <<>>
  THEN [found |-> FALSE, parts |-> <<>>, lineNumber |-> ln, headerSkipped |-> hs]
  ELSE IF sch.hasHeader /\ ~hs THEN DrainLines_NoBlankSkip(Tail(ps), ln + 1, TRUE, sch)
  ELSE [found |-> TRUE, line |-> Head(ps), parts |-> Tail(ps),
        lineNumber |-> ln + 1, headerSkipped |-> hs]

\* DrainLines with the header line left out of the count of lines
RECURSIVE DrainLines_HeaderUncounted(_, _, _, _)
DrainLines_HeaderUncounted(ps, ln, hs, sch) ==
  IF ps = <<>>
  THEN [found |-> FALSE, parts |-> <<>>, lineNumber |-> ln, headerSkipped |-> hs]
  ELSE IF sch.hasHeader /\ ~hs THEN DrainLines_HeaderUncounted(Tail(ps), ln, TRUE, sch)
  ELSE IF Trim(Head(ps)) = <<>> THEN DrainLines_HeaderUncounted(Tail(ps), ln + 1, hs, sch)
  ELSE [found |-> TRUE, line |-> Head(ps), parts |-> Tail(ps),
        lineNumber |-> ln + 1, headerSkipped |-> hs]

\* lines 125-135 of parseStream: the for loop over parts, run up to the
\* next line that is processed (found) or to the end of parts
RECURSIVE DrainLines(_, _, _, _)
DrainLines(ps, ln, hs, sch) ==
  IF ps = <<>>
  THEN [found |-> FALSE, parts |-> <<>>, lineNumber |-> ln, headerSkipped |-> hs]
  ELSE IF sch.hasHeader /\ ~hs THEN DrainLines(Tail(ps), ln + 1, TRUE, sch)
  ELSE IF Trim(Head(ps)) = <<>> THEN DrainLines(Tail(ps), ln + 1, hs, sch)
  ELSE [found |-> TRUE, line |-> Head(ps), parts |-> Tail(ps),
        lineNumber |-> ln + 1, headerSkipped |-> hs]

(* ---------------- inputs of the model ---------------- *)

RECURSIVE SeqsUpTo(_, _)
SeqsUpTo(S, n) ==
  IF n = 0 THEN {<<>>}
  ELSE LET shorter == SeqsUpTo(S, n - 1)
       IN shorter \cup {Append(s, c) : s \in {x \in shorter : Len(x) = n - 1}, c \in S}

DocChars == {"1", "a", "|", CR, LF}

FieldsA == <<Field("id", "number", 0, TRUE), Field("name", "string", 1, FALSE)>>
FieldsB == <<Field("flag", "boolean", 0, FALSE), Field("amt", "decimal", 2, TRUE)>>
FieldsC == <<[Field("dob", "date", 0, FALSE) EXCEPT !.format = FmtYYYYMMDD],
             Field("name", "string", 1, TRUE)>>
FieldsD == <<Field("ok", "boolean", 0, TRUE), Field("qty", "number", 1, FALSE),
             Field("amt", "decimal", 2, FALSE)>>

MkSchema(delimiter, fields, hasHeader, lineEnding) ==
  [delimiter |-> delimiter, fields |-> fields, hasHeader |-> hasHeader,
   lineEnding |-> lineEnding]

DocSchemas ==
  {MkSchema(<<"|">>, f, h, le) :
     f \in {FieldsA, FieldsB, FieldsC, FieldsD}, h \in BOOLEAN, le \in {"LF", "CRLF", "auto"}}

\* the values a record given to stringifyFlat holds, by field type
StrChars == {"a", SP, "|", LF}

Epoch(y, m, d) == [t |-> "date", days |-> DaysFromCivil(y, m, d)]

ValuesOfType(type) ==
  CASE type = "string" -> {[t |-> "string", s |-> x] : x \in SeqsUpTo(StrChars, MaxStrLen)}
    [] type = "number" -> {Normalise(n, 0) : n \in {-1, 0, 12}}
    [] type = "decimal" -> {Normalise(15, 1), Normalise(-5, 1), Normalise(2, 0)}
    [] type = "date" -> {Epoch(1985, 3, 15), Epoch(2000, 2, 29), Epoch(99, 12, 31),
                         Epoch(9999, 12, 31)}
    [] type = "boolean" -> {[t |-> "boolean", b |-> b] : b \in BOOLEAN}

\* the records that are well typed for the fields from number j on: every
\* field has a value of its type or null
RECURSIVE WellTypedFrom(_, _)
WellTypedFrom(fields, j) ==
  IF j > Len(fields) THEN {EmptyRecord}
  ELSE {(fields[j].name :> v) @@ r :
          v \in ValuesOfType(fields[j].type) \cup {Null},
          r \in WellTypedFrom(fields, j + 1)}

WellTyped(fields) == WellTypedFrom(fields, 1)

RtFieldsA == <<Field("id", "number", 0, TRUE), Field("name", "string", 1, FALSE),
               [Field("dob", "date", 2, FALSE) EXCEPT !.format = FmtYYYYMMDD]>>
RtFieldsB == <<[Field("flag", "boolean", 0, FALSE) EXCEPT !.trueValue = <<"Y">>,
                                                          !.falseValue = <<"N">>],
               [Field("amt", "decimal", 1, TRUE) EXCEPT !.decimalPlaces = 1],
               [Field("due", "date", 2, FALSE) EXCEPT !.format = FmtDDMMYYYY]>>
RtFieldsC == <<Field("name", "string", 0, FALSE)>>
RtFieldsD == <<Field("ok", "boolean", 0, FALSE), Field("name", "string", 1, TRUE),
               [Field("on", "date", 2, FALSE) EXCEPT !.format = FmtMMDDYYYY]>>

RtSchemas ==
  {MkSchema(d, f, h, le) :
     d \in {<<"|">>, <<"|", "|">>},
     f \in {RtFieldsA, RtFieldsB, RtFieldsC, RtFieldsD},
     h \in BOOLEAN, le \in {"LF", "CRLF", "auto"}}

\* documents to parse and write back: lines of columns
MaxLines == 2

\* texts a column of a field may hold, by the field's type
ColumnTexts(field) ==
  CASE field.type = "string" -> {<<"a">>, <<SP, "a">>, <<>>}
    [] field.type = "number" -> {<<"1">>, <<"0", "1">>, <<"1", ".", "5">>, <<"1", SP>>, <<>>}
    [] field.type = "decimal" -> {<<"1", ".", "5">>, <<"1", ".", "2", "5">>, <<"2">>,
                                  <<"-", ".", "5">>}
    [] field.type = "boolean" -> {<<"1">>, <<"y">>, <<"N">>}
    [] field.type = "date" ->
         IF field.format = FmtYYYYMMDD
         THEN {<<"1", "9", "8", "5", "0", "3", "1", "5">>,
               <<"1", "9", "8", "5", "0", "2", "3", "0">>,
               <<"0", "0", "8", "5", "0", "3", "1", "5">>, <<"a">>}
         ELSE {<<"1", "5", "/", "0", "3", "/", "1", "9", "8", "5">>,
               <<"0", "3", "/", "1", "5", "/", "1", "9", "8", "5">>,
               <<"1", "5", "/", "0", "3", "/", "8", "5">>,
               <<"1", "9", "8", "5", "/", "0", "3", "/", "1", "5">>, <<"a">>}

\* the text of a column no field reads
Filler == <<"x">>

\* the number of columns the fields reach: 1 + the largest position
RECURSIVE Width(_)
Width(fields) ==
  IF fields = <<>> THEN 0
  ELSE IF Head(fields).position + 1 > Width(Tail(fields)) THEN Head(fields).position + 1
  ELSE Width(Tail(fields))

\* the rows of w columns, column p + 1 a text of the field at position p
\* and the filler where no field is
RECURSIVE Rows(_, _)
Rows(fields, w) ==
  IF w = 0 THEN {<<>>}
  ELSE {Append(r, c) :
          r \in Rows(fields, w - 1),
          c \in IF \E j \in 1..Len(fields) : fields[j].position = w - 1
                THEN UNION {ColumnTexts(fields[j]) :
                              j \in {k \in 1..Len(fields) : fields[k].position = w - 1}}
                ELSE {Filler}}

\* lines of such rows, of rows with one column more and of rows with one
\* column less
LinesFor(sch) ==
  LET rows == Rows(sch.fields, Width(sch.fields))
  IN {Join(r, sch.delimiter) : r \in rows}
     \cup {Join(Append(r, Filler), sch.delimiter) : r \in rows}
     \cup {Join(SubSeq(r, 1, Len(r) - 1), sch.delimiter) : r \in {x \in rows : Len(x) > 1}}

\* the documents of up to n lines separated by sep
RECURSIVE DocsOf(_, _, _)
DocsOf(ls, sep, n) ==
  IF n = 1 THEN ls
  ELSE DocsOf(ls, sep, n - 1)
       \cup {d \o sep \o l : d \in DocsOf(ls, sep, n - 1), l \in ls}

RevNumber == <<Field("id", "number", 0, FALSE)>>
RevDecimal == <<[Field("amt", "decimal", 0, FALSE) EXCEPT !.decimalPlaces = 1]>>
RevBoolean == <<Field("ok", "boolean", 0, FALSE)>>
RevCustom == <<[Field("ok", "boolean", 0, FALSE) EXCEPT !.trueValue = <<"Y">>,
                                                      !.falseValue = <<"N">>]>>
RevDateA == <<[Field("dob", "date", 0, FALSE) EXCEPT !.format = FmtYYYYMMDD]>>
RevDateB == <<[Field("dob", "date", 0, FALSE) EXCEPT !.format = FmtDDMMYYYY]>>
RevDateC == <<[Field("dob", "date", 0, FALSE) EXCEPT !.format = FmtMMDDYYYY]>>
RevPair == <<Field("ok", "boolean", 0, TRUE), Field("name", "string", 1, FALSE)>>
RevGap == <<Field("ok", "boolean", 0, FALSE), Field("name", "string", 2, FALSE)>>

RevSchemas ==
  {MkSchema(<<"|">>, f, h, le) :
     f \in {RevNumber, RevDecimal, RevBoolean, RevCustom, RevDateA, RevDateB, RevDateC,
            RevPair, RevGap},
     h \in BOOLEAN, le \in {"LF", "CRLF", "auto"}}

\* records to write: a field holds a value of its type, null or undefined,
\* or the record lacks it
MaxRecords == 2

WrittenValues(type) ==
  CASE type = "string" -> {[t |-> "string", s |-> x] : x \in {<<"a">>, <<"|">>, <<LF>>}}
    [] type = "number" -> {Normalise(12, 0)}
    [] type = "decimal" -> {Normalise(15, 1)}
    [] type = "date" -> {Epoch(1985, 3, 15)}
    [] type = "boolean" -> {[t |-> "boolean", b |-> TRUE]}

RECURSIVE LooseFrom(_, _)
LooseFrom(fields, j) ==
  IF j > Len(fields) THEN {EmptyRecord}
  ELSE LooseFrom(fields, j + 1)
       \cup {(fields[j].name :> v) @@ r :
               v \in WrittenValues(fields[j].type) \cup {[t |-> "null"], UndefinedValue},
               r \in LooseFrom(fields, j + 1)}

Loose(fields) == LooseFrom(fields, 1)

WrFieldsA == <<Field("name", "string", 0, TRUE), Field("id", "number", 1, FALSE)>>
WrFieldsB == <<[Field("amt", "decimal", 0, TRUE) EXCEPT !.decimalPlaces = 1],
               [Field("dob", "date", 1, FALSE) EXCEPT !.format = FmtYYYYMMDD]>>
WrFieldsC == <<Field("ok", "boolean", 0, TRUE), Field("name", "string", 1, FALSE)>>
WrFieldsD == <<Field("id", "number", 0, FALSE)>>

WrSchemas ==
  {MkSchema(d, f, h, le) :
     d \in {<<"|">>, <<"|", "|">>},
     f \in {WrFieldsA, WrFieldsB, WrFieldsC, WrFieldsD},
     h \in BOOLEAN, le \in {"LF", "CRLF", "auto"}}

(* ---------------- schema.ts ---------------- *)
(* A config is the object the caller passes: a key the caller left out is  *)
(* not in its domain.                                                      *)

Has(config, key) == key \in DOMAIN config

\* fields.sort((a, b) => a.position - b.position) on an array: a stable
\* sort by position
RECURSIVE InsertByPosition(_, _)
InsertByPosition(sorted, f) ==
  IF sorted = <<>> THEN <<f>>
  ELSE IF f.position < sorted[Len(sorted)].position
       THEN InsertByPosition(SubSeq(sorted, 1, Len(sorted) - 1), f)
              \o <<sorted[Len(sorted)]>>
       ELSE sorted \o <<f>>

RECURSIVE SortByPosition(_)
SortByPosition(fields) ==
  IF fields = <<>> THEN <<>>
  ELSE InsertByPosition(SortByPosition(SubSeq(fields, 1, Len(fields) - 1)),
                        fields[Len(fields)])

\* new Set(keys).size !== keys.length
HasDuplicates(keys) ==
  Cardinality({keys[j] : j \in 1..Len(keys)}) # Len(keys)

\* Violation without the test of the names
Violation_NamesUnchecked(config) ==
  IF ~Has(config, "delimiter") \/ config.delimiter = <<>>
  THEN "delimiter is required"
  ELSE IF ~Has(config, "fields") \/ Len(config.fields) = 0
  THEN "at least one field is required"
  ELSE IF HasDuplicates([j \in 1..Len(config.fields) |-> config.fields[j].position])
  THEN "field positions must be unique"
  ELSE "none"

\* lines 18-33 of createSchema: the error it throws, "none" without one
Violation(config) ==
  IF ~Has(config, "delimiter") \/ config.delimiter = <<>>
  THEN "delimiter is required"
  ELSE IF ~Has(config, "fields") \/ Len(config.fields) = 0
  THEN "at least one field is required"
  ELSE IF HasDuplicates([j \in 1..Len(config.fields) |-> config.fields[j].position])
  THEN "field positions must be unique"
  ELSE IF HasDuplicates([j \in 1..Len(config.fields) |-> config.fields[j].name])
  THEN "field names must be unique"
  ELSE "none"

\* lines 35-40 of createSchema: the object it returns
Normalized(config) ==
  [lineEnding |-> IF Has(config, "lineEnding") THEN config.lineEnding ELSE "auto",
   hasHeader |-> IF Has(config, "hasHeader") THEN config.hasHeader ELSE FALSE,
   fields |-> SortByPosition(config.fields)]
  @@ config

\* createSchema with config.fields.sort(...) in place of the sort of a copy
CreateSchema_SortInPlace(config) ==
  IF Violation(config) # "none"
  THEN [ok |-> FALSE, message |-> Violation(config), config |-> config]
  ELSE [ok |-> TRUE, value |-> Normalized(config),
        config |-> [config EXCEPT !.fields = SortByPosition(config.fields)]]

\* createSchema(config): the schema it returns or the error it throws, and
\* the caller's config as the call leaves it
CreateSchema(config) ==
  IF Violation(config) # "none"
  THEN [ok |-> FALSE, message |-> Violation(config), config |-> config]
  ELSE [ok |-> TRUE, value |-> Normalized(config), config |-> config]

\* configs given to createSchema
MaxFields == 3

NoKey == [k \in {} |-> k]

ConfigFields ==
  {Field(n, "string", p, FALSE) : n \in {"a", "b", "c"}, p \in {0, 1, 2}}

Configs ==
  {d @@ f @@ h @@ le :
     d \in {NoKey} \cup {[delimiter |-> x] : x \in {<<>>, <<"|">>}},
     f \in {NoKey} \cup {[fields |-> x] : x \in SeqsUpTo(ConfigFields, MaxFields)},
     h \in {NoKey} \cup {[hasHeader |-> x] : x \in BOOLEAN},
     le \in {NoKey} \cup {[lineEnding |-> x] : x \in {"CRLF", "auto"}}}

\* calls of coerceValue and formatDate by themselves
NoCall == <<>>

BooleanTexts ==
  {<<"t", "r", "u", "e">>, <<"T", "R", "U", "E">>, <<"T", "r", "u", "e">>, <<"1">>,
   <<"y">>, <<"Y">>, <<"y", "e", "s">>, <<"Y", "E", "S">>, <<SP, "y", SP>>,
   <<"f", "a", "l", "s", "e">>, <<"F", "a", "l", "s", "e">>, <<"0">>, <<"n">>, <<"N">>,
   <<"n", "o">>, <<"N", "O">>, <<TAB, "0">>,
   <<>>, <<SP>>, <<"2">>, <<"t", "r", "u">>, <<"y", "e", "s", "s">>, <<"y", SP, "e", "s">>}

BooleanFields ==
  {Field("ok", "boolean", 0, FALSE),
   [Field("ok", "boolean", 0, FALSE) EXCEPT !.trueValue = <<"Y">>, !.falseValue = <<"N">>],
   [Field("ok", "boolean", 0, FALSE) EXCEPT !.trueValue = <<"Y", "e", "s">>],
   [Field("ok", "boolean", 0, FALSE) EXCEPT !.falseValue = <<"n", "o">>],
   [Field("ok", "boolean", 0, FALSE) EXCEPT !.trueValue = <<"0">>],
   [Field("ok", "boolean", 0, FALSE) EXCEPT !.trueValue = <<>>, !.falseValue = <<>>]}

DecimalTexts ==
  {<<"3", ".", "1", "4", "1", "5", "9">>, <<"4", "2", ".", "9">>,
   <<"7", "5", "0", "0", "0", ".", "5", "0">>, <<"-", "1", "2", "0", "0", ".", "0", "0">>,
   <<"2", ".", "5">>, <<"-", "2", ".", "5">>, <<"0", ".", "1", "2", "5">>, <<".", "5">>,
   <<"7">>, <<SP, "7", SP>>, <<"a", "b", "c">>, <<>>, <<SP>>, <<"-">>, <<".">>,
   <<"1", "2", "a", "b", "c">>, <<"1", ".", "5", ".", "3">>, <<"7", SP, "7">>,
   <<"a", "7">>}

DecimalFields ==
  {[Field("amt", "decimal", 0, FALSE) EXCEPT !.decimalPlaces = p] :
     p \in {UndefinedNum, 0, 1, 3}}

DateFields ==
  {[Field("dob", "date", 0, FALSE) EXCEPT !.format = f] :
     f \in {FmtYYYYMMDD, FmtDDMMYYYY, FmtMMDDYYYY}}

\* calendar dates, of the years 1 to 9999
Dates ==
  {Epoch(y, md[1], md[2]) :
     y \in {1, 9, 50, 99, 100, 999, 1000, 1985, 2000, 9999},
     md \in {<<1, 1>>, <<2, 28>>, <<3, 15>>, <<12, 31>>}}
  \cup {Epoch(2000, 2, 29)}

\* texts for a date field: of the shape of one of the formats, with a zero
\* year, month or day, and of other shapes
DateTexts ==
  {<<"1", "9", "8", "5", "0", "3", "1", "5">>,
   <<"0", "0", "0", "0", "0", "3", "1", "5">>,
   <<"1", "9", "8", "5", "0", "0", "1", "5">>,
   <<"1", "9", "8", "5", "0", "3", "0", "0">>,
   <<"1", "9", "8", "5", "0", "3", "1">>,
   <<"1", "9", "8", "5", "0", "3", "1", "5", "0">>,
   <<"1", "9", "8", "5", "0", "3", "1", "a">>,
   <<SP, "1", "9", "8", "5", "0", "3", "1", "5", SP>>,
   <<"2", "0", "2", "4", "-", "0", "1", "-", "1", "5">>,
   <<"1", "5", "/", "0", "3", "/", "1", "9", "8", "5">>,
   <<"0", "3", "/", "1", "5", "/", "1", "9", "8", "5">>,
   <<"0", "0", "/", "0", "3", "/", "1", "9", "8", "5">>,
   <<"1", "5", "/", "0", "0", "/", "1", "9", "8", "5">>,
   <<"1", "5", "/", "0", "3", "/", "0", "0", "0", "0">>,
   <<"1", "5", "-", "0", "3", "-", "1", "9", "8", "5">>,
   <<"1", "5", "/", "0", "3", "/", "8", "5">>,
   <<"1", "5", "/", "0", "3", "/", "9", "8", "5">>,
   <<"1", "2", "3", "/", "0", "3", "/", "1", "9", "8", "5">>,
   <<"1", "9", "8", "5", "/", "0", "3", "/", "1", "5">>,
   <<"1", "5", "/", "3", "/", "1", "9", "8", "5">>,
   <<"1", "5", "/", "0", "3", "/", "1", "9", "8", "5", "0">>,
   <<"a">>, <<>>}

CoerceCalls ==
  {[fn |-> "coerceValue", raw |-> t, field |-> f, value |-> Null] :
     t \in BooleanTexts, f \in BooleanFields}
  \cup {[fn |-> "coerceValue", raw |-> t, field |-> f, value |-> Null] :
          t \in DateTexts, f \in DateFields}
  \cup {[fn |-> "coerceValue", raw |-> t, field |-> f, value |-> Null] :
          t \in DecimalTexts, f \in DecimalFields}

FormatCalls ==
  {[fn |-> "formatDate", raw |-> <<>>, field |-> f, value |-> d] :
     d \in Dates, f \in DateFields}

(* ---------------- state ---------------- *)

VARIABLES
  input,      \* stringifyFlat's records argument
  output,     \* stringifyFlat's result, when it is not parsed again
  call,       \* the arguments of a call of coerceValue or formatDate by itself
  result,     \* what that call returned or threw
  schema,     \* the FlatFileSchema of the call
  content,    \* parseFlat's content argument
  pc,         \* where the call of parseFlat stands
  lines,      \* parseFlat: const lines
  i,          \* parseFlat: the loop variable i (0-based)
  records,    \* parseFlat: const records
  errors,     \* parseFlat: const errors
  stream,     \* parseStream: the bytes the upstream source delivers in all
  pos,        \* the number of bytes of stream read so far
  spc,        \* where the generator of parseStream is suspended
  locked,     \* the reader of parseStream holds the lock of the stream
  pending,    \* the incomplete byte sequence the TextDecoder keeps
  buffer,     \* parseStream: let buffer
  lineNumber, \* parseStream: let lineNumber
  headerSkipped, \* parseStream: let headerSkipped
  parts,      \* parseStream: the lines of parts the for loop has not reached
  atEnd,      \* the generator is in the branch of done
  yielded,    \* the records the consumer has received
  outcome     \* how the traversal ended

pfVars == <<pc, lines, i, records, errors>>
stVars == <<stream, pos, spc, locked, pending, buffer, lineNumber, headerSkipped,
            parts, atEnd, yielded, outcome>>
vars == <<call, result, output, input, schema, content, pc, lines, i, records, errors, stream, pos, spc,
          locked, pending, buffer, lineNumber, headerSkipped, parts, atEnd, yielded,
          outcome>>

(* ---------------- parseFlat, one iteration of its loop per step -------- *)

\* lines 29-33: split the content, start after the header
ParseFlatBegin ==
  /\ pc = "call"
  /\ lines' = SplitLines(content, IF schema.lineEnding = "undefined" THEN "auto"
                                  ELSE schema.lineEnding)
  /\ records' = <<>>
  /\ errors' = <<>>
  /\ i' = IF schema.hasHeader THEN 1 ELSE 0
  /\ pc' = "loop"
  /\ UNCHANGED <<call, result, output, input, schema, content>>
  /\ UNCHANGED stVars

\* line 40: a line that is empty after trimming is skipped
ParseFlatSkip ==
  /\ pc = "loop"
  /\ i < Len(lines)
  /\ Trim(lines[i + 1]) = <<>>
  /\ i' = i + 1
  /\ UNCHANGED <<call, result, output, input, schema, content, pc, lines, records, errors>>
  /\ UNCHANGED stVars

\* ParseFlatLine pushing the record only of a line without errors
ParseFlatLine_DropFailed ==
  /\ pc = "loop"
  /\ i < Len(lines)
  /\ Trim(lines[i + 1]) # <<>>
  /\ \E r \in {ParseLine(lines[i + 1], schema, i + 1)} :
        /\ errors' = errors \o r.errors
        /\ records' = IF r.errors = <<>> THEN Append(records, r.record) ELSE records
        /\ i' = i + 1
        /\ pc' = pc
  /\ UNCHANGED <<call, result, output, input, schema, content, lines>>
  /\ UNCHANGED stVars

\* ParseFlatLine numbering the lines from 0, as the loop variable does
ParseFlatLine_ZeroBased ==
  /\ pc = "loop"
  /\ i < Len(lines)
  /\ Trim(lines[i + 1]) # <<>>
  /\ \E r \in {ParseLine(lines[i + 1], schema, i)} :
        /\ errors' = errors \o r.errors
        /\ IF r.threw
           THEN /\ pc' = "threw"
                /\ UNCHANGED <<records, i>>
           ELSE /\ records' = Append(records, r.record)
                /\ i' = i + 1
                /\ pc' = pc
  /\ UNCHANGED <<call, result, output, input, schema, content, lines>>
  /\ UNCHANGED stVars

\* lines 42-77: a non-blank line gives one record
ParseFlatLine ==
  /\ pc = "loop"
  /\ i < Len(lines)
  /\ Trim(lines[i + 1]) # <<>>
  /\ \E r \in {ParseLine(lines[i + 1], schema, i + 1)} :
        /\ errors' = errors \o r.errors
        /\ IF r.threw
           THEN /\ pc' = "threw"
                /\ UNCHANGED <<records, i>>
           ELSE /\ records' = Append(records, r.record)
                /\ i' = i + 1
                /\ pc' = pc
  /\ UNCHANGED <<call, result, output, input, schema, content, lines>>
  /\ UNCHANGED stVars

\* line 80: the loop is over, return { records, errors }
ParseFlatReturn ==
  /\ pc = "loop"
  /\ i >= Len(lines)
  /\ pc' = "returned"
  /\ UNCHANGED <<call, result, output, input, schema, content, lines, i, records, errors>>
  /\ UNCHANGED stVars

ParseFlatStep == ParseFlatBegin \/ ParseFlatSkip \/ ParseFlatLine \/ ParseFlatReturn

(* ---------------- stringifyFlat, then parseFlat of its result ---------- *)

\* stringifyFlat(input, schema); its result is the content parseFlat is
\* then called with
Stringify ==
  /\ pc = "stringify"
  /\ content' = StringifyFlat(input, schema)
  /\ pc' = "call"
  /\ UNCHANGED <<call, result, output, input, schema, lines, i, records, errors>>
  /\ UNCHANGED stVars

Init ==
  /\ input = <<>>
  /\ output = <<>>
  /\ call = NoCall
  /\ result = NoCall
  /\ schema \in DocSchemas
  /\ content \in SeqsUpTo(DocChars, MaxDocLen)
  /\ pc = "call"
  /\ lines = <<>>
  /\ i = 0
  /\ records = <<>>
  /\ errors = <<>>
  /\ stream = <<>>
  /\ pos = 0
  /\ spc = "idle"
  /\ locked = FALSE
  /\ pending = <<>>
  /\ buffer = <<>>
  /\ lineNumber = 0
  /\ headerSkipped = FALSE
  /\ parts = <<>>
  /\ atEnd = FALSE
  /\ yielded = <<>>
  /\ outcome = "none"

Next ==
  \/ ParseFlatBegin
  \/ ParseFlatSkip
  \/ ParseFlatLine
  \/ ParseFlatReturn

Spec == Init /\ [][Next]_vars

\* parseFlat of documents of line terminators, under each lineEnding and
\* under none
LineChars == {"a", CR, LF}

LineSchemas ==
  {MkSchema(<<"|">>, <<Field("name", "string", 0, FALSE)>>, h, le) :
     h \in BOOLEAN, le \in {"LF", "CRLF", "auto", "undefined"}}

InitLines ==
  /\ input = <<>>
  /\ output = <<>>
  /\ call = NoCall
  /\ result = NoCall
  /\ schema \in LineSchemas
  /\ content \in SeqsUpTo(LineChars, MaxDocLen)
  /\ pc = "call"
  /\ lines = <<>>
  /\ i = 0
  /\ records = <<>>
  /\ errors = <<>>
  /\ stream = <<>>
  /\ pos = 0
  /\ spc = "idle"
  /\ locked = FALSE
  /\ pending = <<>>
  /\ buffer = <<>>
  /\ lineNumber = 0
  /\ headerSkipped = FALSE
  /\ parts = <<>>
  /\ atEnd = FALSE
  /\ yielded = <<>>
  /\ outcome = "none"

SpecLines == InitLines /\ [][Next]_vars

\* a record is serialised and the text parsed back
InitRoundTrip ==
  /\ schema \in RtSchemas
  /\ input \in {<<r>> : r \in WellTyped(schema.fields)}
  /\ output = <<>>
  /\ call = NoCall
  /\ result = NoCall
  /\ content = <<>>
  /\ pc = "stringify"
  /\ lines = <<>>
  /\ i = 0
  /\ records = <<>>
  /\ errors = <<>>
  /\ stream = <<>>
  /\ pos = 0
  /\ spc = "idle"
  /\ locked = FALSE
  /\ pending = <<>>
  /\ buffer = <<>>
  /\ lineNumber = 0
  /\ headerSkipped = FALSE
  /\ parts = <<>>
  /\ atEnd = FALSE
  /\ yielded = <<>>
  /\ outcome = "none"

NextRoundTrip ==
  \/ Stringify
  \/ ParseFlatBegin
  \/ ParseFlatSkip
  \/ ParseFlatLine
  \/ ParseFlatReturn

SpecRoundTrip == InitRoundTrip /\ [][NextRoundTrip]_vars

(* ---------------- parseFlat, then stringifyFlat of its records -------- *)

\* stringifyFlat(records, schema) with the records parseFlat returned
StringifyRecords ==
  /\ pc = "returned"
  /\ output' = StringifyFlat(records, schema)
  /\ pc' = "stringified"
  /\ UNCHANGED <<call, result, input, schema, content, lines, i, records, errors>>
  /\ UNCHANGED stVars

\* a document is parsed and its records are written back
InitReverse ==
  /\ schema \in RevSchemas
  /\ \E sep \in {<<LF>>, <<CR, LF>>} : \E end \in {<<>>, sep} :
       content \in {d \o end : d \in DocsOf(LinesFor(schema), sep, MaxLines)}
  /\ input = <<>>
  /\ output = <<>>
  /\ call = NoCall
  /\ result = NoCall
  /\ pc = "call"
  /\ lines = <<>>
  /\ i = 0
  /\ records = <<>>
  /\ errors = <<>>
  /\ stream = <<>>
  /\ pos = 0
  /\ spc = "idle"
  /\ locked = FALSE
  /\ pending = <<>>
  /\ buffer = <<>>
  /\ lineNumber = 0
  /\ headerSkipped = FALSE
  /\ parts = <<>>
  /\ atEnd = FALSE
  /\ yielded = <<>>
  /\ outcome = "none"

NextReverse ==
  \/ ParseFlatBegin
  \/ ParseFlatSkip
  \/ ParseFlatLine
  \/ ParseFlatReturn
  \/ StringifyRecords

SpecReverse == InitReverse /\ [][NextReverse]_vars

(* ---------------- stringifyFlat alone ---------------- *)

\* stringifyFlat(input, schema)
StringifyInput ==
  /\ pc = "write"
  /\ output' = StringifyFlat(input, schema)
  /\ pc' = "written"
  /\ UNCHANGED <<call, result, input, schema, content, lines, i, records, errors>>
  /\ UNCHANGED stVars

InitStringify ==
  /\ schema \in WrSchemas
  /\ input \in SeqsUpTo(Loose(schema.fields), MaxRecords)
  /\ output = <<>>
  /\ call = NoCall
  /\ result = NoCall
  /\ content = <<>>
  /\ pc = "write"
  /\ lines = <<>>
  /\ i = 0
  /\ records = <<>>
  /\ errors = <<>>
  /\ stream = <<>>
  /\ pos = 0
  /\ spc = "idle"
  /\ locked = FALSE
  /\ pending = <<>>
  /\ buffer = <<>>
  /\ lineNumber = 0
  /\ headerSkipped = FALSE
  /\ parts = <<>>
  /\ atEnd = FALSE
  /\ yielded = <<>>
  /\ outcome = "none"

NextStringify == StringifyInput

SpecStringify == InitStringify /\ [][NextStringify]_vars

(* ---------------- coerceValue and formatDate by themselves ------------ *)

idle == UNCHANGED <<output, input, schema, content, lines, i, records, errors>>

\* coerceValue(raw, field)
CoerceCall ==
  /\ pc = "coerce"
  /\ result' = CoerceValue(call.raw, call.field)
  /\ pc' = "coerced"
  /\ UNCHANGED call
  /\ idle
  /\ UNCHANGED stVars

\* formatDate(value, format)
FormatCall ==
  /\ pc = "format"
  /\ result' = FormatDate(call.value, call.field.format)
  /\ pc' = "formatted"
  /\ UNCHANGED call
  /\ idle
  /\ UNCHANGED stVars

\* coerceValue of the text formatDate returned, for the same field
CoerceFormatted ==
  /\ pc = "formatted"
  /\ call' = [call EXCEPT !.fn = "coerceValue", !.raw = result]
  /\ result' = CoerceValue(result, call.field)
  /\ pc' = "coerced"
  /\ idle
  /\ UNCHANGED stVars

InitCoerce ==
  /\ call \in CoerceCalls \cup FormatCalls
  /\ pc = IF call.fn = "formatDate" THEN "format" ELSE "coerce"
  /\ result = NoCall
  /\ schema = MkSchema(<<"|">>, <<call.field>>, FALSE, "auto")
  /\ input = <<>>
  /\ output = <<>>
  /\ content = <<>>
  /\ lines = <<>>
  /\ i = 0
  /\ records = <<>>
  /\ errors = <<>>
  /\ stream = <<>>
  /\ pos = 0
  /\ spc = "idle"
  /\ locked = FALSE
  /\ pending = <<>>
  /\ buffer = <<>>
  /\ lineNumber = 0
  /\ headerSkipped = FALSE
  /\ parts = <<>>
  /\ atEnd = FALSE
  /\ yielded = <<>>
  /\ outcome = "none"

NextCoerce ==
  \/ CoerceCall
  \/ FormatCall
  \/ CoerceFormatted

SpecCoerce == InitCoerce /\ [][NextCoerce]_vars

(* ---------------- createSchema by itself ---------------- *)

\* createSchema(config)
CreateCall ==
  /\ pc = "create"
  /\ \E r \in {CreateSchema(call.config)} :
       /\ result' = [k \in DOMAIN r \ {"config"} |-> r[k]]
       /\ call' = [call EXCEPT !.config = r.config]
  /\ pc' = "created"
  /\ idle
  /\ UNCHANGED stVars

\* createSchema(schema) for the schema createSchema returned
CreateAgain ==
  /\ pc = "created"
  /\ result.ok
  /\ \E r \in {CreateSchema(result.value)} :
       /\ result' = [k \in DOMAIN r \ {"config"} |-> r[k]]
       /\ call' = [call EXCEPT !.first = result.value]
  /\ pc' = "recreated"
  /\ idle
  /\ UNCHANGED stVars

InitSchema ==
  /\ \E c \in Configs :
       call = [fn |-> "createSchema", given |-> c, config |-> c, first |-> NoCall]
  /\ pc = "create"
  /\ result = NoCall
  /\ schema = MkSchema(<<"|">>, <<>>, FALSE, "auto")
  /\ input = <<>>
  /\ output = <<>>
  /\ content = <<>>
  /\ lines = <<>>
  /\ i = 0
  /\ records = <<>>
  /\ errors = <<>>
  /\ stream = <<>>
  /\ pos = 0
  /\ spc = "idle"
  /\ locked = FALSE
  /\ pending = <<>>
  /\ buffer = <<>>
  /\ lineNumber = 0
  /\ headerSkipped = FALSE
  /\ parts = <<>>
  /\ atEnd = FALSE
  /\ yielded = <<>>
  /\ outcome = "none"

NextSchema ==
  \/ CreateCall
  \/ CreateAgain

SpecSchema == InitSchema /\ [][NextSchema]_vars

(* ---------------- parseStream ---------------- *)
(* One step is the run of the async generator from one suspension (the     *)
(* await of reader.read(), or a yield) to the next.  spc is "created"      *)
(* before the first pull, "read" while reader.read() is awaited, "yield"   *)
(* while a record is with the consumer, "ended" after the generator has    *)
(* finished.                                                               *)

pfIdle == UNCHANGED <<call, result, output, input, schema, content, pc, lines, i, records, errors>>

\* the finally block, then the end of the generator
Finish(how) ==
  /\ locked' = FALSE
  /\ spc' = "ended"
  /\ outcome' = how

\* the generator goes on from the for loop with the lines ps: it yields the
\* record of the next line to process, or awaits the next read
Continue(ps, ln, hs, end) ==
  \E d \in {DrainLines(ps, ln, hs, schema)} :
    /\ lineNumber' = d.lineNumber
    /\ headerSkipped' = d.headerSkipped
    /\ parts' = d.parts
    /\ IF d.found
       THEN \E r \in {ProcessLine(d.line, schema, d.lineNumber)} :
              IF r.threw
              THEN /\ Finish("coercion error")
                   /\ UNCHANGED <<yielded, atEnd>>
              ELSE /\ yielded' = Append(yielded, r.record)
                   /\ spc' = "yield"
                   /\ atEnd' = end
                   /\ UNCHANGED <<locked, outcome>>
       ELSE IF end
       THEN /\ Finish("exhausted")
            /\ UNCHANGED <<yielded, atEnd>>
       ELSE /\ spc' = "read"
            /\ UNCHANGED <<yielded, atEnd, locked, outcome>>

\* the consumer's first next(): line 102, getReader, then the first read
ConsumerStart ==
  /\ spc = "created"
  /\ locked' = TRUE
  /\ spc' = "read"
  /\ UNCHANGED <<stream, pos, pending, buffer, lineNumber, headerSkipped, parts,
                 atEnd, yielded, outcome>>
  /\ pfIdle

\* the consumer's return() before any next(): the body never runs
ConsumerCancel ==
  /\ spc = "created"
  /\ spc' = "ended"
  /\ outcome' = "cancelled"
  /\ UNCHANGED <<stream, pos, locked, pending, buffer, lineNumber, headerSkipped,
                 parts, atEnd, yielded>>
  /\ pfIdle

\* reader.read() resolves with a chunk of n bytes: lines 119-135
ReadChunk ==
  /\ spc = "read"
  /\ \E n \in 0..(Len(stream) - pos) :
       \E dec \in {Decode(pending, SubSeq(stream, pos + 1, pos + n), <<>>, pos = 0)} :
         \E t \in {TakeLines(buffer \o dec.text)} :
           /\ pos' = pos + n
           /\ pending' = dec.pending
           /\ buffer' = t.buffer
           /\ Continue(t.parts, lineNumber, headerSkipped, FALSE)
  /\ UNCHANGED stream
  /\ pfIdle

\* ReadDone leaving the loop without a look at the buffer
ReadDone_DropTail ==
  /\ spc = "read"
  /\ pos = Len(stream)
  /\ Finish("exhausted")
  /\ UNCHANGED <<stream, pos, pending, buffer, lineNumber, headerSkipped, parts,
                 atEnd, yielded>>
  /\ pfIdle

\* reader.read() resolves with done: lines 108-117
ReadDone ==
  /\ spc = "read"
  /\ pos = Len(stream)
  /\ IF Trim(buffer) # <<>>
     THEN IF ~(schema.hasHeader /\ ~headerSkipped)
          THEN \E r \in {ProcessLine(buffer, schema, lineNumber + 1)} :
                 IF r.threw
                 THEN /\ Finish("coercion error")
                      /\ UNCHANGED <<yielded, atEnd>>
                 ELSE /\ yielded' = Append(yielded, r.record)
                      /\ spc' = "yield"
                      /\ atEnd' = TRUE
                      /\ UNCHANGED <<locked, outcome>>
          ELSE /\ Finish("exhausted")
               /\ UNCHANGED <<yielded, atEnd>>
     ELSE /\ Finish("exhausted")
          /\ UNCHANGED <<yielded, atEnd>>
  /\ lineNumber' = IF Trim(buffer) # <<>> THEN lineNumber + 1 ELSE lineNumber
  /\ UNCHANGED <<stream, pos, pending, buffer, headerSkipped, parts>>
  /\ pfIdle

\* reader.read() rejects: the error of the upstream source passes the
\* finally block and reaches the consumer
ReadError ==
  /\ spc = "read"
  /\ Finish("upstream error")
  /\ UNCHANGED <<stream, pos, pending, buffer, lineNumber, headerSkipped, parts,
                 atEnd, yielded>>
  /\ pfIdle

\* ConsumerNext with the next read awaited after every record, the lines
\* still in parts left for later
ConsumerNext_ReadAhead ==
  /\ spc = "yield"
  /\ IF atEnd
     THEN Continue(parts, lineNumber, headerSkipped, atEnd)
     ELSE /\ spc' = "read"
          /\ UNCHANGED <<lineNumber, headerSkipped, parts, atEnd, yielded, locked, outcome>>
  /\ UNCHANGED <<stream, pos, pending, buffer>>
  /\ pfIdle

\* the consumer's next() after a record: the for loop goes on, or, after
\* the record of the last fragment, the loop is left
ConsumerNext ==
  /\ spc = "yield"
  /\ Continue(parts, lineNumber, headerSkipped, atEnd)
  /\ UNCHANGED <<stream, pos, pending, buffer>>
  /\ pfIdle

\* ConsumerReturn with the lock released only after the loop, not in a
\* finally block
ConsumerReturn_NoFinally ==
  /\ spc = "yield"
  /\ spc' = "ended"
  /\ outcome' = "returned"
  /\ UNCHANGED <<stream, pos, locked, pending, buffer, lineNumber, headerSkipped,
                 parts, atEnd, yielded>>
  /\ pfIdle

\* the consumer's return() (a break out of for await) at a yield
ConsumerReturn ==
  /\ spc = "yield"
  /\ Finish("returned")
  /\ UNCHANGED <<stream, pos, pending, buffer, lineNumber, headerSkipped, parts,
                 atEnd, yielded>>
  /\ pfIdle

\* the consumer's throw() at a yield
ConsumerThrow ==
  /\ spc = "yield"
  /\ Finish("consumer error")
  /\ UNCHANGED <<stream, pos, pending, buffer, lineNumber, headerSkipped, parts,
                 atEnd, yielded>>
  /\ pfIdle

MaxBytes == 4

StreamBytes == {"1", "|", CR, LF, LeadByte, ContByte, BomBytes}

StreamFields == <<Field("id", "number", 0, TRUE), Field("name", "string", 1, FALSE)>>

StreamSchemas ==
  {MkSchema(d, StreamFields, h, "auto") :
     d \in {<<"|">>, <<"|", "|">>, <<ZWNBSP>>}, h \in BOOLEAN}

InitStream ==
  /\ schema \in StreamSchemas
  /\ stream \in SeqsUpTo(StreamBytes, MaxBytes)
  /\ pos = 0
  /\ spc = "created"
  /\ locked = FALSE
  /\ pending = <<>>
  /\ buffer = <<>>
  /\ lineNumber = 0
  /\ headerSkipped = FALSE
  /\ parts = <<>>
  /\ atEnd = FALSE
  /\ yielded = <<>>
  /\ outcome = "none"
  /\ input = <<>>
  /\ output = <<>>
  /\ call = NoCall
  /\ result = NoCall
  /\ content = <<>>
  /\ pc = "idle"
  /\ lines = <<>>
  /\ i = 0
  /\ records = <<>>
  /\ errors = <<>>

NextStream ==
  \/ ConsumerStart
  \/ ConsumerCancel
  \/ ReadChunk
  \/ ReadDone
  \/ ReadError
  \/ ConsumerNext
  \/ ConsumerReturn
  \/ ConsumerThrow

SpecStream == InitStream /\ [][NextStream]_vars

\* parseStream of the bytes of lines under one delimiter, in every chunking
ChunkBytes == {"1", CR, LF, LeadByte, ContByte, BomBytes}

ChunkSchemas ==
  {MkSchema(<<"|">>, <<Field("id", "number", 0, FALSE)>>, h, "auto") : h \in BOOLEAN}

InitChunks ==
  /\ schema \in ChunkSchemas
  /\ stream \in SeqsUpTo(ChunkBytes, MaxBytes)
  /\ pos = 0
  /\ spc = "created"
  /\ locked = FALSE
  /\ pending = <<>>
  /\ buffer = <<>>
  /\ lineNumber = 0
  /\ headerSkipped = FALSE
  /\ parts = <<>>
  /\ atEnd = FALSE
  /\ yielded = <<>>
  /\ outcome = "none"
  /\ input = <<>>
  /\ output = <<>>
  /\ call = NoCall
  /\ result = NoCall
  /\ content = <<>>
  /\ pc = "idle"
  /\ lines = <<>>
  /\ i = 0
  /\ records = <<>>
  /\ errors = <<>>

SpecChunks == InitChunks /\ [][NextStream]_vars

(* ---------------- both parsers, on documents of every field type ------- *)

TypedSchemas ==
  {MkSchema(<<"|">>, f, h, "auto") :
     f \in {RevDecimal, RevDateB, RevCustom, RevPair}, h \in BOOLEAN}

\* a document is encoded and given to parseStream
InitTypedStream ==
  /\ schema \in TypedSchemas
  /\ \E end \in {<<>>, <<LF>>} :
       stream \in {Encode(d \o end) : d \in DocsOf(LinesFor(schema), <<LF>>, MaxLines)}
  /\ pos = 0
  /\ spc = "created"
  /\ locked = FALSE
  /\ pending = <<>>
  /\ buffer = <<>>
  /\ lineNumber = 0
  /\ headerSkipped = FALSE
  /\ parts = <<>>
  /\ atEnd = FALSE
  /\ yielded = <<>>
  /\ outcome = "none"
  /\ input = <<>>
  /\ output = <<>>
  /\ call = NoCall
  /\ result = NoCall
  /\ content = <<>>
  /\ pc = "idle"
  /\ lines = <<>>
  /\ i = 0
  /\ records = <<>>
  /\ errors = <<>>

InitParsers == InitReverse \/ InitTypedStream

NextParsers == NextReverse \/ NextStream

SpecParsers == InitParsers /\ [][NextParsers]_vars

(* ---------------- whole runs, as functions of their input ------------- *)

\* the loop of parseFlat (lines 35-78) over the lines ls from index k on
\* (0-based): the records it pushes
RECURSIVE ParseFlatFrom(_, _, _, _)
ParseFlatFrom(ls, sch, k, acc) ==
  IF k >= Len(ls) THEN acc
  ELSE IF Trim(ls[k + 1]) = <<>> THEN ParseFlatFrom(ls, sch, k + 1, acc)
  ELSE ParseFlatFrom(ls, sch, k + 1, Append(acc, ParseLine(ls[k + 1], sch, k + 1).record))

\* parseFlat(text, sch).records
ParseFlatRecords(text, sch) ==
  ParseFlatFrom(SplitLines(text, IF sch.lineEnding = "undefined" THEN "auto"
                                 ELSE sch.lineEnding),
                sch, IF sch.hasHeader THEN 1 ELSE 0, <<>>)

\* the for loop of parseStream (lines 125-135) over all of ps with every
\* yield resumed: the records yielded and the variables after the loop
RECURSIVE YieldAll(_, _, _, _, _)
YieldAll(ps, ln, hs, sch, acc) ==
  IF DrainLines(ps, ln, hs, sch).found
  THEN YieldAll(DrainLines(ps, ln, hs, sch).parts,
                DrainLines(ps, ln, hs, sch).lineNumber,
                DrainLines(ps, ln, hs, sch).headerSkipped, sch,
                Append(acc, ProcessLine(DrainLines(ps, ln, hs, sch).line, sch,
                                        DrainLines(ps, ln, hs, sch).lineNumber).record))
  ELSE [yielded |-> acc, headerSkipped |-> DrainLines(ps, ln, hs, sch).headerSkipped]

\* the branch of done (lines 108-117) after the loop has given y
AtDone(buf, y, sch) ==
  IF Trim(buf) # <<>> /\ ~(sch.hasHeader /\ ~y.headerSkipped)
  THEN Append(y.yielded, ProcessLine(buf, sch, 0).record)
  ELSE y.yielded

AfterChunk(t, sch) == AtDone(t.buffer, YieldAll(t.parts, 0, FALSE, sch, <<>>), sch)

\* parseStream over a stream that delivers bytes as one chunk and is then
\* done, consumed to the end: the records yielded
SingleChunk(bytes, sch) ==
  AfterChunk(TakeLines(Decode(<<>>, bytes, <<>>, TRUE).text), sch)

(* ======================= properties of parseFlat ======================= *)

\* the lines of a document, found by reading it character by character: a
\* LF ends the line under 'LF'; a LF right after a CR ends it, without that
\* CR, under 'CRLF'; under 'auto' every LF ends it, a CR before it dropped
RECURSIVE ScanLines(_, _, _)
ScanLines(text, lineEnding, cur) ==
  IF text = <<>> THEN <<cur>>
  ELSE LET c == Head(text)
           afterCR == cur # <<>> /\ cur[Len(cur)] = CR
           ends == c = LF /\ (lineEnding = "CRLF" => afterCR)
           line == IF lineEnding # "LF" /\ afterCR THEN SubSeq(cur, 1, Len(cur) - 1)
                   ELSE cur
       IN IF ends THEN <<line>> \o ScanLines(Tail(text), lineEnding, <<>>)
          ELSE ScanLines(Tail(text), lineEnding, Append(cur, c))

IsBlank(line) == \A j \in 1..Len(line) : IsWhiteSpace(line[j])

\* the non-blank data lines of the document, in document order
NonBlankDataLines ==
  LET all == ScanLines(content, schema.lineEnding, <<>>)
      data == IF schema.hasHeader THEN Tail(all) ELSE all
  IN SelectSeq(data, LAMBDA l : ~IsBlank(l))

\* the 1-based numbers of the lines parseFlat makes records of
RecordLines ==
  {ln \in ((IF schema.hasHeader THEN 1 ELSE 0) + 1)..Len(lines) : Trim(lines[ln]) # <<>>}

\* the record made of line ln, for ln in RecordLines
RecordOf(ln) == records[Cardinality({m \in RecordLines : m <= ln})]

ErrorsOf(ln, field) ==
  SelectSeq(errors, LAMBDA e : e.line = ln /\ e.field = field.name)

FieldSet == {schema.fields[j] : j \in 1..Len(schema.fields)}

ColumnsOf(ln) == SplitOn(lines[ln], schema.delimiter)

\* C1: when parseFlat returns, records holds exactly one record per
\* non-blank data line of the document, in document order, whatever the
\* number of fields that failed.
C1_OneRecordPerDataLine ==
  pc = "returned" =>
    /\ Len(records) = Len(NonBlankDataLines)
    /\ \A k \in 1..Len(records) :
         records[k] = ParseLine(NonBlankDataLines[k], schema, 0).record

C1_Witness ==
  /\ pc = "returned"
  /\ Len(records) >= 2
  /\ Len(errors) >= 2
  /\ Len(lines) > Len(records)

\* a field of line ln whose text is not empty and that coerceValue rejects
CoercionFails(ln, field) ==
  LET raw == RawAt(ColumnsOf(ln), field)
  IN Trim(raw) # <<>> /\ ~CoerceValue(raw, field).ok

\* C2: no exception leaves parseFlat: every failure of coerceValue is in
\* errors as a ParseError of its line and field, and the loop has gone
\* through every line when parseFlat returns.
C2_NoExceptionEscapes ==
  /\ pc # "threw"
  /\ pc = "returned" =>
       /\ i = Len(lines)
       /\ \A ln \in RecordLines : \A field \in FieldSet :
            CoercionFails(ln, field) =>
              \E k \in 1..Len(errors) :
                /\ errors[k].line = ln
                /\ errors[k].field = field.name
                /\ errors[k].raw = RawAt(ColumnsOf(ln), field)
                /\ errors[k].message = CoerceValue(errors[k].raw, field).message

C2_Witness ==
  /\ pc = "returned"
  /\ \E ln \in RecordLines : \E m \in RecordLines :
       /\ ln < m
       /\ \E field \in FieldSet : CoercionFails(ln, field)
       /\ \E field \in FieldSet : CoercionFails(m, field)

\* a field of line ln that fails validation or coercion
FieldFails(ln, field) ==
  ParseField(RawAt(ColumnsOf(ln), field), field, ln).errors # <<>>

\* a text every type accepts for a field of that type
ValidText(field) ==
  IF field.type = "string" THEN <<"a">>
  ELSE IF field.type = "date" THEN <<"2", "0", "0", "0", "0", "1", "0", "1">>
  ELSE <<"1">>

\* the columns of a line with the column of one field replaced by valid
\* text (a line too short for the field is extended with empty columns)
WithValidColumn(cols, field) ==
  [j \in 1..(IF field.position + 1 > Len(cols) THEN field.position + 1 ELSE Len(cols)) |->
     IF j = field.position + 1 THEN ValidText(field)
     ELSE IF j <= Len(cols) THEN cols[j]
     ELSE <<>>]

\* C3: a failing field adds exactly one ParseError for its line and field
\* and is null in the record; every other field of the line has the value
\* and the errors it would have had the failing column held valid text, and
\* the record is emitted.
C3_FailureIsolated ==
  pc = "returned" =>
    /\ Len(records) = Cardinality(RecordLines)
    /\ \A ln \in RecordLines : \A field \in FieldSet :
         FieldFails(ln, field) =>
           /\ Len(ErrorsOf(ln, field)) = 1
           /\ RecordOf(ln)[field.name] = Null
           /\ LET fixed == ParseFields(WithValidColumn(ColumnsOf(ln), field),
                                       schema.fields, ln, 1,
                                       [record |-> EmptyRecord, errors |-> <<>>,
                                        threw |-> FALSE])
              IN \A other \in FieldSet \ {field} :
                   /\ other.name \in DOMAIN RecordOf(ln)
                   /\ RecordOf(ln)[other.name] = fixed.record[other.name]
                   /\ ErrorsOf(ln, other) =
                        SelectSeq(fixed.errors, LAMBDA e : e.field = other.name)

\* a line whose first field fails while a later field holds a value
C3_Witness ==
  /\ pc = "returned"
  /\ \E ln \in RecordLines :
       /\ FieldFails(ln, schema.fields[1])
       /\ \E j \in 2..Len(schema.fields) :
            RecordOf(ln)[schema.fields[j].name] # Null

\* the column of a field is empty after trimming, or the line has no such
\* column
ColumnEmpty(ln, field) == Trim(RawAt(ColumnsOf(ln), field)) = <<>>

\* C4: a field whose column is empty after trimming or missing is null and
\* is not coerced, whatever its type: it has exactly one ParseError (the
\* validation error) when it is required and none when it is optional.
C4_EmptyField ==
  pc = "returned" =>
    \A ln \in RecordLines : \A field \in FieldSet :
      ColumnEmpty(ln, field) =>
        /\ RecordOf(ln)[field.name] = Null
        /\ IF field.required
           THEN /\ Len(ErrorsOf(ln, field)) = 1
                /\ ErrorsOf(ln, field)[1].message = <<"required but empty">>
           ELSE ErrorsOf(ln, field) = <<>>

\* a line with an empty required column, and one with a missing optional one
C4_Witness ==
  /\ pc = "returned"
  /\ \E ln \in RecordLines : \E field \in FieldSet :
       ColumnEmpty(ln, field) /\ field.required
  /\ \E ln \in RecordLines : \E field \in FieldSet :
       /\ ColumnEmpty(ln, field) /\ ~field.required
       /\ field.position + 1 > Len(ColumnsOf(ln))

(* ================== properties of the round trip ================== *)

Formatted == SerializedParts(input[1], schema.fields)

\* a value the round trip can give back: a string is not empty and has no
\* white space at its ends; a date has a year of 100 to 9999
Representable(value) ==
  /\ value.t = "string" => value.s # <<>> /\ Trim(value.s) = value.s
  /\ value.t = "date" => /\ CivilFromDays(value.days).year >= 100
                         /\ CivilFromDays(value.days).year <= 9999

\* the serialised line has no CR or LF and splits on the delimiter into
\* exactly the formatted values
LineIntact ==
  LET line == Join(Formatted, schema.delimiter)
  IN /\ \A j \in 1..Len(line) : line[j] \notin {CR, LF}
     /\ SplitOn(line, schema.delimiter) = Formatted

RoundTripCovered ==
  /\ input # <<>>
  /\ \A n \in DOMAIN input[1] : Representable(input[1][n])
  /\ \E n \in DOMAIN input[1] : input[1][n] # Null
  /\ LineIntact

AllLines == ScanLines(content, schema.lineEnding, <<>>)

\* the fields that fail on the text of a line
FailingFields(line) ==
  {field \in FieldSet :
     ParseField(RawAt(SplitOn(line, schema.delimiter), field), field, 0).errors # <<>>}

\* C14: the line of every ParseError is 1 + the 0-based index, among all
\* the lines of the document (header and blank lines counted), of the line
\* the error is about: that line holds the raw text of the error, it is at
\* least 2 under hasHeader, and when parseFlat returns every line has as
\* many errors with its number as it has failing fields.
C14_ErrorLineNumbers ==
  /\ \A k \in 1..Len(errors) :
       /\ errors[k].line \in 1..Len(AllLines)
       /\ schema.hasHeader => errors[k].line >= 2
       /\ ~IsBlank(AllLines[errors[k].line])
       /\ \E field \in FailingFields(AllLines[errors[k].line]) :
            /\ field.name = errors[k].field
            /\ errors[k].raw
                 = RawAt(SplitOn(AllLines[errors[k].line], schema.delimiter), field)
       /\ \A m \in 1..k : errors[m].line <= errors[k].line
  /\ pc = "returned" =>
       \A ln \in 1..Len(AllLines) :
         Cardinality({k \in 1..Len(errors) : errors[k].line = ln})
           = IF IsBlank(AllLines[ln]) \/ (schema.hasHeader /\ ln = 1) THEN 0
             ELSE Cardinality(FailingFields(AllLines[ln]))

\* an error of the third line, after the header and a blank line
C14_Witness ==
  /\ pc = "returned"
  /\ schema.hasHeader
  /\ Len(AllLines) >= 3
  /\ IsBlank(AllLines[2])
  /\ FailingFields(AllLines[1]) # {}
  /\ \E k \in 1..Len(errors) : errors[k].line = 3
  /\ \A k \in 1..Len(errors) : errors[k].line >= 3

(* ============ properties of parseFlat followed by stringifyFlat ======== *)

NoBlankLines == \A ln \in 1..Len(lines) : Trim(lines[ln]) # <<>>

NoTrailingTerminator == content = <<>> \/ content[Len(content)] # LF

\* C11 as stated: a document without header, blank lines and trailing
\* terminator that parseFlat parses with zero errors is reproduced exactly
\* by stringifyFlat of its records.
C11_ReproducesAnyDocument ==
  pc = "stringified" /\ ~schema.hasHeader /\ NoBlankLines /\ NoTrailingTerminator
    /\ errors = <<>>
  => output = content

\* the fields are at the positions 0, 1, ... in field order
DensePositions == \A j \in 1..Len(schema.fields) : schema.fields[j].position = j - 1

\* the value parseFlat gives a column of a document without errors
ParsedValue(raw, field) ==
  IF Trim(raw) = <<>> THEN Null ELSE CoerceValue(raw, field).value

\* every line has one column per field, and every column is the text
\* serializeValue writes for the value the column is parsed to
InWrittenForm ==
  \A ln \in 1..Len(lines) :
    /\ Len(ColumnsOf(ln)) = Len(schema.fields)
    /\ \A j \in 1..Len(schema.fields) :
         LET raw == RawAt(ColumnsOf(ln), schema.fields[j])
         IN SerializeValue(ParsedValue(raw, schema.fields[j]), schema.fields[j]) = raw

\* the line terminators of the document are those stringifyFlat writes
WrittenTerminators ==
  schema.lineEnding \notin {"LF", "CRLF"} => IndexOf(content, <<CR, LF>>) = 0

\* C11: a document without header, blank lines and trailing terminator that
\* parseFlat parses with zero errors is reproduced exactly by stringifyFlat
\* of its records provided that the fields have the positions 0, 1, ... in
\* field order, every line has exactly one column per field, every column
\* is exactly the text serializeValue writes for its value, and under
\* 'auto' no line ends in CR LF.
C11_Reproduces ==
  pc = "stringified" /\ ~schema.hasHeader /\ NoBlankLines /\ NoTrailingTerminator
    /\ errors = <<>> /\ DensePositions /\ InWrittenForm /\ WrittenTerminators
  => output = content

\* a document of two lines with a null column has been written back
C11_Witness ==
  /\ pc = "stringified"
  /\ ~schema.hasHeader /\ NoBlankLines /\ NoTrailingTerminator /\ errors = <<>>
  /\ DensePositions /\ InWrittenForm /\ WrittenTerminators
  /\ Len(records) = 2
  /\ Len(schema.fields) = 2
  /\ \E k \in 1..2 : records[k]["name"] = Null
  /\ output = content

\* the texts ts with sep between every two of them, built from the left
RECURSIVE Glue(_, _)
Glue(ts, sep) ==
  IF ts = <<>> THEN <<>>
  ELSE IF Len(ts) = 1 THEN ts[1]
  ELSE Glue(SubSeq(ts, 1, Len(ts) - 1), sep) \o sep \o ts[Len(ts)]

RECURSIVE TotalLen(_)
TotalLen(ts) == IF ts = <<>> THEN 0 ELSE Len(Head(ts)) + TotalLen(Tail(ts))

HeaderLine == Glue([j \in 1..Len(schema.fields) |-> <<schema.fields[j].name>>],
                   schema.delimiter)

RecordLine(record) ==
  Glue([j \in 1..Len(schema.fields) |->
          SerializeValue(record[schema.fields[j].name], schema.fields[j])],
       schema.delimiter)

WrittenLines(recs) ==
  (IF schema.hasHeader THEN <<HeaderLine>> ELSE <<>>)
  \o [k \in 1..Len(recs) |-> RecordLine(recs[k])]

LineEnd == IF schema.lineEnding = "CRLF" THEN <<CR, LF>> ELSE <<LF>>

\* C12: the output of stringifyFlat is the header line (the field names in
\* field order with the delimiter between them) when hasHeader is set, then
\* one line per record in input order (the formatted values in field order
\* with the delimiter between them), with CR LF between the lines under
\* 'CRLF' and LF otherwise and nothing after the last line; zero records
\* give '' without header and the header line alone with header.
C12_OutputLayout ==
  pc = "stringified" =>
    /\ output = Glue(WrittenLines(records), LineEnd)
    /\ Len(output) = TotalLen(WrittenLines(records))
                     + (IF WrittenLines(records) = <<>> THEN 0
                        ELSE (Len(WrittenLines(records)) - 1) * Len(LineEnd))
    /\ records = <<>> /\ ~schema.hasHeader => output = <<>>
    /\ records = <<>> /\ schema.hasHeader => output = HeaderLine

\* a record of two fields has been written under a header, with CR LF
\* between the two lines
C12_Witness ==
  /\ pc = "stringified"
  /\ schema.hasHeader
  /\ schema.lineEnding = "CRLF"
  /\ Len(records) = 1
  /\ Len(schema.fields) = 2
  /\ records[1]["name"] # Null
  /\ Len(SplitOn(output, <<CR, LF>>)) = 2

(* ======================= properties of stringifyFlat =================== *)

\* the field has no value in the record: null, undefined or no key
Absent(record, field) ==
  \/ field.name \notin DOMAIN record
  \/ record[field.name] \in {Null, UndefinedValue}

\* the data lines of the output: the lines after the header
OutputDataLines ==
  IF input = <<>> THEN <<>>
  ELSE SubSeq(SplitOn(output, LineEnd), (IF schema.hasHeader THEN 2 ELSE 1),
              Len(SplitOn(output, LineEnd)))

\* the j-th column of every data line is empty where the record has no
\* value, and every data line has one column per field
AbsentIsEmptyColumn ==
  /\ Len(OutputDataLines) = Len(input)
  /\ \A k \in 1..Len(OutputDataLines) :
       /\ Len(SplitOn(OutputDataLines[k], schema.delimiter)) = Len(schema.fields)
       /\ \A j \in 1..Len(schema.fields) :
            Absent(input[k], schema.fields[j])
              => SplitOn(OutputDataLines[k], schema.delimiter)[j] = <<>>

\* C13 as stated: whatever the values, a field without value is an empty
\* column and every data line has as many columns as the schema has fields.
C13_AbsentIsEmptyAnyValues ==
  pc = "written" => AbsentIsEmptyColumn

\* no value of the records has a character of the delimiter or of a line
\* terminator in its text
PlainValues ==
  \A k \in 1..Len(input) : \A j \in 1..Len(schema.fields) :
    \A c \in 1..Len(SerializeValue(ValueOf(input[k], schema.fields[j]), schema.fields[j])) :
      SerializeValue(ValueOf(input[k], schema.fields[j]), schema.fields[j])[c]
        \notin {schema.delimiter[1], CR, LF}

\* C13: a field whose value is null, undefined or missing is written as
\* the empty string, whatever its type and its required flag, and
\* stringifyFlat returns; when no formatted value contains a character of
\* the delimiter or a line break, every data line has as many columns as
\* the schema has fields and the column of such a field is empty.
C13_AbsentIsEmpty ==
  /\ pc = "written" =>
       \A k \in 1..Len(input) : \A j \in 1..Len(schema.fields) :
         Absent(input[k], schema.fields[j])
           => SerializeValue(ValueOf(input[k], schema.fields[j]), schema.fields[j]) = <<>>
  /\ pc = "written" /\ PlainValues => AbsentIsEmptyColumn

\* a record with a null, a record with an undefined or missing value of a
\* required field, have been written
C13_Witness ==
  /\ pc = "written"
  /\ PlainValues
  /\ Len(input) = 2
  /\ Len(schema.fields) = 2
  /\ \E j \in 1..2 : schema.fields[j].name \in DOMAIN input[1]
                     /\ input[1][schema.fields[j].name] = Null
  /\ schema.fields[1].required
  /\ schema.fields[1].name \notin DOMAIN input[2]
  /\ \E j \in 1..2 : ~Absent(input[2], schema.fields[j])
  /\ AbsentIsEmptyColumn

(* ======================= properties of parseStream ===================== *)

IsPrefix(p, q) == Len(p) <= Len(q) /\ p = SubSeq(q, 1, Len(p))

\* C6: whatever the cuts between the chunks, the consumer receives the
\* records parseStream yields when the same bytes come as a single chunk:
\* at every moment a prefix of them, and all of them once the stream is
\* exhausted.
C6_ChunkingInvariant ==
  /\ IsPrefix(yielded, SingleChunk(stream, schema))
  /\ outcome = "exhausted" => yielded = SingleChunk(stream, schema)

\* a chunk has ended between the CR and the LF of a line with text
C6_Witness ==
  /\ spc = "read"
  /\ pos > 0
  /\ pos < Len(stream)
  /\ Trim(buffer) # <<>>
  /\ buffer[Len(buffer)] = CR
  /\ stream[pos + 1] = LF

\* C7: once the reader is acquired, the lock is released on every way the
\* traversal ends (exhaustion, return or throw of the consumer at a yield,
\* error of the upstream read): the lock is held only while the generator
\* is suspended inside the try block, and never after it has ended.
C7_LockReleased ==
  /\ spc = "ended" => ~locked
  /\ locked <=> spc \in {"read", "yield"}
  /\ outcome \in {"exhausted", "returned", "consumer error", "upstream error",
                  "coercion error"} => spc = "ended"

\* the consumer has stopped early, with bytes of the stream still unread
C7_Witness ==
  /\ spc = "ended"
  /\ outcome = "returned"
  /\ pos < Len(stream)
  /\ yielded # <<>>
  /\ ~locked

\* the text that bytes are the UTF-8 of, when they are the UTF-8 of a text
RECURSIVE TextOf(_)
TextOf(bytes) ==
  IF bytes = <<>> THEN <<>>
  ELSE IF Head(bytes) = LeadByte /\ Len(bytes) > 1 /\ bytes[2] = ContByte
  THEN <<EAcute>> \o TextOf(Tail(Tail(bytes)))
  ELSE IF Head(bytes) \in {LeadByte, ContByte} THEN <<Replacement>> \o TextOf(Tail(bytes))
  ELSE IF Head(bytes) = BomBytes THEN <<ZWNBSP>> \o TextOf(Tail(bytes))
  ELSE <<Head(bytes)>> \o TextOf(Tail(bytes))

\* stream holds the bytes of a document, D
IsDocument == Encode(TextOf(stream)) = stream
D == TextOf(stream)

Contains(text, c) == \E j \in 1..Len(text) : text[j] = c

\* C8 as stated: for every document D, whatever the chunking of its bytes,
\* the records parseStream has yielded when the stream is exhausted are
\* parseFlat(D, schema).records.
C8_StreamEqualsParseFlatAnyDocument ==
  IsDocument /\ outcome = "exhausted" => yielded = ParseFlatRecords(D, schema)

\* C8: for every document D that does not begin with U+FEFF, or with a
\* delimiter that is not empty and has no U+FEFF in it, whatever the
\* chunking of D's bytes, the records parseStream has yielded when the
\* stream is exhausted are parseFlat(D, schema).records, and before that a
\* prefix of them.
C8_StreamEqualsParseFlat ==
  /\ IsDocument
  /\ \/ D = <<>>
     \/ Head(D) # ZWNBSP
     \/ schema.delimiter # <<>> /\ ~Contains(schema.delimiter, ZWNBSP)
  => /\ IsPrefix(yielded, ParseFlatRecords(D, schema))
     /\ outcome = "exhausted" => yielded = ParseFlatRecords(D, schema)

\* a document of more than one line that begins with a byte order mark has
\* been read to its end under a delimiter without U+FEFF
C8_Witness ==
  /\ IsDocument
  /\ outcome = "exhausted"
  /\ yielded # <<>>
  /\ Head(stream) = BomBytes
  /\ ~Contains(schema.delimiter, ZWNBSP)
  /\ Contains(D, LF)

\* the text decoded from the first n bytes of the stream
DecodedUpTo(n) == Decode(<<>>, SubSeq(stream, 1, n), <<>>, TRUE).text

\* the lines of a text that are complete (a line terminator follows them)
\* and the fragment after the last terminator
CompleteLines(text) ==
  SubSeq(ScanLines(text, "auto", <<>>), 1, Len(ScanLines(text, "auto", <<>>)) - 1)
Fragment(text) == ScanLines(text, "auto", <<>>)[Len(ScanLines(text, "auto", <<>>))]

\* the complete lines of a text that are neither the header nor blank
DataLines(text) ==
  SelectSeq(IF schema.hasHeader /\ CompleteLines(text) # <<>>
            THEN Tail(CompleteLines(text)) ELSE CompleteLines(text),
            LAMBDA l : ~IsBlank(l))

\* the final fragment of a text is processed at the end of the stream
FragmentCounts(text) ==
  ~IsBlank(Fragment(text)) /\ ~(schema.hasHeader /\ CompleteLines(text) = <<>>)

\* the lines the records yielded so far were made of
YieldedLines ==
  IF atEnd THEN Append(DataLines(DecodedUpTo(pos)), Fragment(DecodedUpTo(pos)))
  ELSE DataLines(DecodedUpTo(pos))

StreamFails(raw, field) ==
  \/ field.required /\ Trim(raw) = <<>>
  \/ Trim(raw) # <<>> /\ ~CoerceValue(raw, field).ok

\* C9: a field of a line that fails validation or coercion is null in the
\* record, the record is yielded with every field of the schema, its other
\* fields parsed; no exception of coerceValue ends the traversal; and when
\* the error of the upstream read is delivered, the record of every line
\* completed by the chunks read before has been yielded.
C9_SilentDegradation ==
  /\ outcome # "coercion error"
  /\ Len(yielded) <= Len(YieldedLines)
  /\ \A k \in 1..Len(yielded) :
       /\ DOMAIN yielded[k] = {f.name : f \in FieldSet}
       /\ \A field \in FieldSet :
            LET raw == RawAt(SplitOn(YieldedLines[k], schema.delimiter), field)
            IN /\ StreamFails(raw, field) => yielded[k][field.name] = Null
               /\ ~StreamFails(raw, field) /\ Trim(raw) # <<>>
                    => yielded[k][field.name] = CoerceValue(raw, field).value
  /\ outcome = "upstream error" => Len(yielded) = Len(DataLines(DecodedUpTo(pos)))

\* the upstream read has failed after a record with a field that failed
\* coercion and a field that was parsed
C9_Witness ==
  /\ outcome = "upstream error"
  /\ yielded # <<>>
  /\ \E field \in FieldSet :
       LET raw == RawAt(SplitOn(YieldedLines[1], schema.delimiter), field)
       IN Trim(raw) # <<>> /\ ~CoerceValue(raw, field).ok
  /\ \E field \in FieldSet : yielded[1][field.name] # Null

\* C10: when the stream is exhausted, the text after the last line
\* terminator has been processed as one more line and its record yielded
\* last if it is not blank, unless hasHeader is set and it is the first
\* line, the header; the records before it are those of the complete data
\* lines; an empty stream yields nothing.
C10_FinalFragment ==
  outcome = "exhausted" =>
    /\ IF FragmentCounts(DecodedUpTo(Len(stream)))
       THEN /\ Len(yielded) = Len(DataLines(DecodedUpTo(Len(stream)))) + 1
            /\ yielded[Len(yielded)]
                 = ProcessLine(Fragment(DecodedUpTo(Len(stream))), schema, 0).record
       ELSE Len(yielded) = Len(DataLines(DecodedUpTo(Len(stream))))
    /\ stream = <<>> => yielded = <<>>

\* a stream whose last line has no terminator is exhausted, the record of
\* that line received after the record of a terminated line
C10_Witness ==
  /\ outcome = "exhausted"
  /\ atEnd
  /\ Len(yielded) >= 2
  /\ stream[Len(stream)] \notin {CR, LF}


(* ======================= properties of both parsers ==================== *)

\* a value of the declared type of the field: string, number (for number
\* and decimal), Date, boolean
OfDeclaredType(v, field) ==
  CASE field.type = "string" -> v.t = "string"
    [] field.type \in {"number", "decimal"} -> v.t = "number"
    [] field.type = "date" -> v.t = "date"
    [] field.type = "boolean" -> v.t = "boolean"

\* the record has the field names as its keys, null where the column of
\* the line is empty or fails, and values of the declared types
WellFormedRecord(record, line) ==
  /\ DOMAIN record = {f.name : f \in FieldSet}
  /\ \A field \in FieldSet :
       /\ record[field.name] # Null => OfDeclaredType(record[field.name], field)
       /\ StreamFails(RawAt(SplitOn(line, schema.delimiter), field), field)
            => record[field.name] = Null
       /\ Trim(RawAt(SplitOn(line, schema.delimiter), field)) = <<>>
            => record[field.name] = Null

SameIgnoringCase(a, b) ==
  /\ Len(a) = Len(b)
  /\ \A j \in 1..Len(a) : LowerChar(a[j]) = LowerChar(b[j])

TrueWords == {<<"t", "r", "u", "e">>, <<"1">>, <<"y">>, <<"y", "e", "s">>}
FalseWords == {<<"f", "a", "l", "s", "e">>, <<"0">>, <<"n">>, <<"n", "o">>}

\* the value is the configured token, or one of the default words when
\* `configured` is false
Matches(value, token, configured, words) ==
  IF configured THEN SameIgnoringCase(value, token)
  ELSE \E w \in words : SameIgnoringCase(value, w)

IsTrue(r) == r.ok /\ r.value = [t |-> "boolean", b |-> TRUE]
IsFalse(r) == r.ok /\ r.value = [t |-> "boolean", b |-> FALSE]
IsTypeError(r) == ~r.ok

BooleanCoerced ==
  pc = "coerced" /\ call.field.type = "boolean"

\* C16 as stated: true for the trueValue (the words true/1/y/yes when none
\* is configured), false for the falseValue (false/0/n/no when none is
\* configured), a TypeError for every other value; the trimmed value is
\* compared without regard to case.
C16_BooleanTokens ==
  BooleanCoerced =>
    LET v == Trim(call.raw)
        isT == Matches(v, call.field.trueValue, call.field.trueValue # Undefined, TrueWords)
        isF == Matches(v, call.field.falseValue, call.field.falseValue # Undefined,
                       FalseWords)
    IN /\ isT => IsTrue(result)
       /\ isF => IsFalse(result)
       /\ ~isT /\ ~isF => IsTypeError(result)
       /\ v = <<>> => IsTypeError(result)

\* C16, amended: a token counts as configured when it is a non-empty
\* string, and the true side is tested first.  The trimmed value compared
\* without regard to case, coerceValue returns true when the value is the
\* trueValue (one of true/1/y/yes when none is configured), otherwise
\* false when it is the falseValue (one of false/0/n/no when none is
\* configured), and throws a TypeError for every other value, the empty
\* string included.
C16_BooleanTokensInOrder ==
  BooleanCoerced =>
    LET v == Trim(call.raw)
        isT == Matches(v, call.field.trueValue,
                       call.field.trueValue \notin {Undefined, <<>>}, TrueWords)
        isF == Matches(v, call.field.falseValue,
                       call.field.falseValue \notin {Undefined, <<>>}, FalseWords)
    IN /\ isT => IsTrue(result)
       /\ ~isT /\ isF => IsFalse(result)
       /\ ~isT /\ ~isF => IsTypeError(result)
       /\ v = <<>> => IsTypeError(result)

\* 'YES' in capitals and between spaces would be true by default, and is a
\* TypeError for a field whose tokens are Y and N
C16_Witness ==
  /\ BooleanCoerced
  /\ call.field.trueValue = <<"Y">>
  /\ call.field.falseValue = <<"N">>
  /\ call.raw = <<"Y", "E", "S">>
  /\ IsTypeError(result)


DecimalCoerced ==
  pc = "coerced" /\ call.field.type = "decimal"

\* the whole text is a numeric literal: an optional sign, digits, and an
\* optional point with digits after or instead of them
IsNumericLiteral(v) ==
  \E sg \in {0, 1}, ip \in 0..Len(v), fp \in 0..Len(v) :
    /\ sg = 1 => Len(v) >= 1 /\ v[1] = "-"
    /\ ip + fp >= 1
    /\ Len(v) = sg + ip + (IF fp > 0 THEN 1 + fp ELSE 0)
       \/ (ip >= 1 /\ fp = 0 /\ Len(v) = sg + ip + 1 /\ v[Len(v)] = ".")
    /\ \A j \in (sg + 1)..(sg + ip) : IsDigit(v[j])
    /\ fp > 0 => /\ v[sg + ip + 1] = "."
                 /\ \A j \in (sg + ip + 2)..(sg + ip + 1 + fp) : IsDigit(v[j])

\* x rounded to `places` fraction digits, a half going away from zero
RoundedTo(x, places) ==
  IF x.k <= places THEN x
  ELSE LET mag == IF x.n < 0 THEN 0 - x.n ELSE x.n
           m == (2 * mag + Pow10(x.k - places)) \div (2 * Pow10(x.k - places))
       IN Normalise(IF x.n < 0 THEN 0 - m ELSE m, places)

PlacesOf(field) ==
  IF field.decimalPlaces = UndefinedNum THEN 2 ELSE field.decimalPlaces

\* C17: coerceValue of a decimal field returns a number exactly when the
\* trimmed value is not empty and is as a whole a numeric literal, and the
\* number is the one of the literal rounded to decimalPlaces fraction digits
\* (2 when unset); for every other value it throws a TypeError.
C17_DecimalWholeLiteral ==
  DecimalCoerced =>
    IF IsNumericLiteral(Trim(call.raw))
    THEN /\ result.ok
         /\ result.value = RoundedTo(DecimalValue(Trim(call.raw)), PlacesOf(call.field))
    ELSE IsTypeError(result)


(* ================ properties of formatDate with coerceValue ============ *)

\* the text formatDate returned for the Date has been coerced again
DateCoercedBack ==
  pc = "coerced" /\ call.field.type = "date" /\ call.value # Null

\* C18: for the formats YYYYMMDD, DD/MM/YYYY and MM/DD/YYYY and every date of
\* the years 1 to 9999, coerceValue of the text formatDate writes for the
\* Date returns a Date of the same UTC year, month and day.
C18_DateRoundTrip ==
  DateCoercedBack =>
    /\ result.ok
    /\ CivilFromDays(result.value.days) = CivilFromDays(call.value.days)


(* ======================= properties of createSchema ==================== *)

\* the structural violations of a config
NoDelimiter(c) == ~Has(c, "delimiter") \/ Len(c.delimiter) = 0
NoFields(c) == ~Has(c, "fields") \/ Len(c.fields) = 0
SamePosition(c) ==
  /\ Has(c, "fields")
  /\ \E j, k \in 1..Len(c.fields) : j # k /\ c.fields[j].position = c.fields[k].position
SameName(c) ==
  /\ Has(c, "fields")
  /\ \E j, k \in 1..Len(c.fields) : j # k /\ c.fields[j].name = c.fields[k].name

ValidConfig(c) == ~NoDelimiter(c) /\ ~NoFields(c) /\ ~SamePosition(c) /\ ~SameName(c)

\* C19: createSchema throws, and returns no schema, for a config without a
\* delimiter or with an empty one, without fields or with an empty list of
\* them, with two fields of one position or with two fields of one name; it
\* does not throw for a config with none of these.
C19_ThrowsOnViolation ==
  pc = "created" =>
    /\ ValidConfig(call.given) <=> result.ok
    /\ ~result.ok => ~Has(result, "value")

\* createSchema has thrown for a config whose only violation is a name that
\* two of its three fields share
C19_Witness ==
  /\ pc = "created"
  /\ ~result.ok
  /\ ~NoDelimiter(call.given)
  /\ ~NoFields(call.given)
  /\ Len(call.given.fields) = 3
  /\ ~SamePosition(call.given)
  /\ SameName(call.given)

\* the fields of b are the fields of a, in some order
SameFields(a, b) ==
  /\ Len(a) = Len(b)
  /\ \A f \in {a[j] : j \in 1..Len(a)} :
       Cardinality({j \in 1..Len(a) : a[j] = f}) = Cardinality({j \in 1..Len(b) : b[j] = f})

StrictlyAscending(fields) ==
  \A j \in 1..(Len(fields) - 1) : fields[j].position < fields[j + 1].position

\* C20: for a valid config the schema createSchema returns has the fields of
\* the config in strictly ascending order of position, the lineEnding and
\* hasHeader of the config, or 'auto' and false where the config has none,
\* and the delimiter of the config; the config is as the caller passed it,
\* and createSchema of the schema returns a schema equal to it.
C20_NormalizedCopy ==
  /\ pc = "created" /\ ValidConfig(call.given) =>
       /\ result.ok
       /\ DOMAIN result.value = {"delimiter", "fields", "hasHeader", "lineEnding"}
       /\ SameFields(call.given.fields, result.value.fields)
       /\ StrictlyAscending(result.value.fields)
       /\ result.value.delimiter = call.given.delimiter
       /\ result.value.lineEnding
            = (IF Has(call.given, "lineEnding") THEN call.given.lineEnding ELSE "auto")
       /\ result.value.hasHeader
            = (IF Has(call.given, "hasHeader") THEN call.given.hasHeader ELSE FALSE)
       /\ call.config = call.given
  /\ pc = "recreated" =>
       /\ result.ok
       /\ result.value = call.first
       /\ call.config = call.given

\* createSchema has been applied twice, to a config of three fields in
\* descending order of position with CRLF and without hasHeader
C20_Witness ==
  /\ pc = "recreated"
  /\ result.ok
  /\ Len(call.given.fields) = 3
  /\ call.given.fields[1].position = 2
  /\ call.given.fields[3].position = 0
  /\ ~Has(call.given, "hasHeader")
  /\ Has(call.given, "lineEnding")
  /\ call.given.lineEnding = "CRLF"
  /\ result.value.fields[1].position = 0
  /\ result.value.hasHeader = FALSE


(* ======================= properties of splitLines ====================== *)

\* the character sequences that end a line under the lineEnding
Terminators(lineEnding) ==
  IF lineEnding = "CRLF" THEN {<<CR, LF>>}
  ELSE IF lineEnding = "LF" THEN {<<LF>>}
  ELSE {<<LF>>, <<CR, LF>>}

\* the text is the lines ls in their order, each but the last followed by
\* one of the terminators; where CR LF is a terminator, a CR before a line
\* feed belongs to the terminator and not to the line
RECURSIVE EndedBy(_, _, _)
EndedBy(text, ls, terms) ==
  IF Len(ls) = 1 THEN text = ls[1]
  ELSE \E t \in terms :
         /\ IsPrefix(ls[1] \o t, text)
         /\ (t = <<LF>> /\ <<CR, LF>> \in terms)
              => (ls[1] = <<>> \/ ls[1][Len(ls[1])] # CR)
         /\ EndedBy(SubSeq(text, Len(ls[1]) + Len(t) + 1, Len(text)), Tail(ls), terms)

\* C21: the lines parseFlat works on are the document cut at the line
\* terminators of the schema's lineEnding and nowhere else: at CR LF only
\* under 'CRLF', at every LF under 'LF', at LF and at CR LF under 'auto' and
\* under no lineEnding; no line holds a terminator of its policy.
C21_LineEndingPolicy ==
  pc # "call" =>
    /\ Len(lines) >= 1
    /\ EndedBy(content, lines, Terminators(schema.lineEnding))
    /\ \A k \in 1..Len(lines) : \A t \in Terminators(schema.lineEnding) :
         IndexOf(lines[k], t) = 0
    /\ schema.lineEnding = "CRLF" /\ IndexOf(content, <<CR>>) = 0 => lines = <<content>>

\* under 'CRLF' a document with a bare LF and a CR LF has been parsed as two
\* lines, the LF inside the first
C21_Witness ==
  /\ pc = "returned"
  /\ schema.lineEnding = "CRLF"
  /\ content = <<"a", LF, CR, LF, "a">>
  /\ lines = <<<<"a", LF>>, <<"a">>>>
  /\ Len(records) = 2 - (IF schema.hasHeader THEN 1 ELSE 0)


(* ======================= properties of parseDate ======================= *)

DateCoerced ==
  pc = "coerced" /\ call.field.type = "date" /\ call.value = Null

\* the value has the shape of the format: a digit for every letter of the
\* tokens YYYY, MM and DD, and the characters of the format between them
HasShape(value, format) ==
  /\ Len(value) = Len(format)
  /\ \A j \in 1..Len(format) :
       IF format[j] \in {"Y", "M", "D"} THEN IsDigit(value[j]) ELSE value[j] = format[j]

\* the number the digits under the token stand for
Under(value, format, token) ==
  DigitsVal(SubSeq(value, IndexOf(format, token), IndexOf(format, token) + Len(token) - 1))

\* C22: for the formats made of YYYY, MM and DD coerceValue of a date field
\* throws a TypeError whenever the trimmed value has not the shape of the
\* format, and whenever its year, month or day is zero.
C22_ShapeOrTypeError ==
  DateCoerced =>
    /\ ~HasShape(Trim(call.raw), call.field.format) => IsTypeError(result)
    /\ HasShape(Trim(call.raw), call.field.format) =>
         \A token \in {TokYYYY, TokMM, TokDD} :
           Under(Trim(call.raw), call.field.format, token) = 0 => IsTypeError(result)


(* ================= properties of the suspensions of parseStream ======== *)

\* the records yielded are those of the first data lines received, in the
\* order of the lines; while a read is awaited no complete line is held,
\* in parts or in the buffer, and every data line received has its record
OrderedAndDrained ==
  /\ Len(yielded) <= Len(YieldedLines)
  /\ \A k \in 1..Len(yielded) :
       yielded[k] = ProcessLine(YieldedLines[k], schema, 0).record
  /\ spc = "read" =>
       /\ parts = <<>>
       /\ ~Contains(buffer, LF)
       /\ Len(yielded) = Len(DataLines(DecodedUpTo(pos)))

\* a step yields at most one record, and the generator is then suspended
\* at that yield, not at a read
OneRecordPerPull ==
  yielded' # yielded =>
    /\ yielded' = Append(yielded, yielded'[Len(yielded')])
    /\ spc' = "yield"

\* C23: parseStream yields the records in the order of the lines, one for a
\* pull of the consumer, and awaits the next chunk only when every complete
\* line received has been yielded or skipped; no record is produced by a
\* step that leaves a read awaited.
C23_PullDriven == []OrderedAndDrained /\ [][OneRecordPerPull]_vars

\* the records of two lines of one stream have been yielded and the next
\* read is awaited
C23_Witness ==
  /\ spc = "read"
  /\ stream = <<"1", LF, "1", LF>>
  /\ pos = 4
  /\ Len(yielded) = 2
  /\ buffer = <<>>

\* the number of line feeds of a text, and the text after the last of them
CountLF(text) == Cardinality({j \in 1..Len(text) : text[j] = LF})
AfterLastLF(text) ==
  IF CountLF(text) = 0 THEN text
  ELSE SubSeq(text, 1 + CHOOSE j \in 1..Len(text) :
                          text[j] = LF /\ \A k \in (j + 1)..Len(text) : text[k] # LF,
              Len(text))

\* the lines of the text that are not blank, the first left out as the
\* header when hasHeader is set
LinesButHeader(text) ==
  SelectSeq(IF schema.hasHeader THEN Tail(ScanLines(text, "auto", <<>>))
            ELSE ScanLines(text, "auto", <<>>),
            LAMBDA l : ~IsBlank(l))

\* C24: wherever parseStream awaits the next chunk, the buffer has no line
\* feed and is the decoded text received so far after its last line feed,
\* lineNumber is the number of line feeds received, and headerSkipped is
\* true exactly when hasHeader is set and a line feed has been received;
\* of an exhausted stream the first line alone has been skipped as header.
C24_AwaitInvariant ==
  /\ spc = "read" =>
       /\ ~Contains(buffer, LF)
       /\ buffer = AfterLastLF(DecodedUpTo(pos))
       /\ lineNumber = CountLF(DecodedUpTo(pos))
       /\ headerSkipped <=> (schema.hasHeader /\ CountLF(DecodedUpTo(pos)) >= 1)
  /\ outcome = "exhausted" =>
       /\ Len(yielded) = Len(LinesButHeader(DecodedUpTo(Len(stream))))
       /\ \A k \in 1..Len(yielded) :
            yielded[k]
              = ProcessLine(LinesButHeader(DecodedUpTo(Len(stream)))[k], schema, 0).record

\* under hasHeader two line feeds have come and the next chunk is awaited
\* with the start of the third line in the buffer
C24_Witness ==
  /\ spc = "read"
  /\ schema.hasHeader
  /\ headerSkipped
  /\ lineNumber = 2
  /\ buffer = <<"1">>
  /\ stream = <<"1", LF, LF, "1">>
  /\ pos = 4


====
